---- MODULE Spec2Model ----
\* A model of halloy's IRC client core (data/src/client.rs): the per-server
\* Client state machine, its label/batch correlator, the outbound shaper and
\* the derived channel/user views.
EXTENDS Integers, Sequences, FiniteSets, TLC

\* ---------------------------------------------------------------- bounds
\* most capability tokens kept in listed_caps
MaxListed == 2
\* free slots of the outbound mpsc channel when it is empty
SinkCap == 4
\* most items handed to one grouping call of the shaper
MaxItems == 3
\* batch references the server uses
MaxRefs == 2
\* most event-producing messages held while some batch is open
MaxArr == 2
\* most labels generated by send()
MaxLabels == 2
\* most channels in chanmap at once
MaxChans == 3

\* ---------------------------------------------------------------- basics
\* Option<T>: None is the empty tuple, Some(x) the one-element tuple.
None == <<>>
Some(x) == <<x>>
IsSome(o) == o # <<>>
Unwrap(o) == o[1]

Min(a, b) == IF a <= b THEN a ELSE b

Range(s) == {s[i] : i \in DOMAIN s}

Contains(s, x) == \E i \in DOMAIN s : s[i] = x

\* the first n elements of s
Take(s, n) == SubSeq(s, 1, Min(n, Len(s)))

\* the function f without the key k
MapRemove(f, k) == [x \in (DOMAIN f) \ {k} |-> f[x]]

\* the function f with f[k] = v
MapInsert(f, k, v) == [x \in (DOMAIN f) \cup {k} |-> IF x = k THEN v ELSE f[x]]

EmptyMap == [x \in {} |-> 0]

\* all orders in which the elements of the finite set S can be listed
Orderings(S) ==
    {f \in [1..Cardinality(S) -> S] : \A i, j \in 1..Cardinality(S) : f[i] = f[j] => i = j}

\* ---------------------------------------------------------------- RegistrationStep
Start == 0
List == 1
Req == 2
Sasl == 3
End == 4

\* ---------------------------------------------------------------- wire limits
BYTE_LIMIT == 512

\* b"CAP REQ :\r\n".len()
CAP_REQ_PREFIX == 11
\* b"JOIN \r\n".len()
JOIN_PREFIX == 7
\* b"MONITOR + \r\n".len()
MONITOR_PREFIX == 12

VARIABLES
    config,                      \* config::Server, fixed at construction
    handle,                      \* free slots of the outbound channel
    sent,                        \* messages the last operation pushed on the sink
    alt_nick,
    resolved_nick,
    chanmap,
    channels,
    users,
    labels,
    batches,
    reroute_responses_to,
    registration_step,
    listed_caps,
    supports_labels,
    supports_away_notify,
    supports_account_notify,
    supports_extended_join,
    supports_read_marker,
    registration_required_channels,
    isupport,
    clock,                       \* the time: what Instant::now() and generate_label read
    hret,                        \* what the inner handle call returned
    ret,                         \* what the last operation returned
    input,                       \* the operation last applied and its argument
    hist,                        \* history kept for the properties (never read by the client)
    shIn,                        \* input of the last shaper call
    shOut,                       \* messages the last shaper call produced
    highlight_blackout,
    Map,                         \* client::Map: server -> State
    exited                       \* what the last Map::exit returned

capVars == <<registration_step, listed_caps, supports_labels, supports_away_notify,
             supports_account_notify, supports_extended_join, supports_read_marker>>
nickVars == <<alt_nick, resolved_nick>>
viewVars == <<channels, users>>
\* what only Client::tick, the shaper calls and the Map operations touch
shVars == <<shIn, shOut, highlight_blackout, Map, exited>>

vars == <<config, handle, sent, alt_nick, resolved_nick, chanmap, channels, users,
          labels, batches, reroute_responses_to, registration_step, listed_caps,
          supports_labels, supports_away_notify, supports_account_notify,
          supports_extended_join, supports_read_marker,
          registration_required_channels, isupport, clock, hret, ret,
          input, hist, shIn, shOut, highlight_blackout, Map, exited>>

\* ---------------------------------------------------------------- results, events
Ok(events) == [events |-> events, ok |-> TRUE, panic |-> FALSE]
Err == [events |-> <<>>, ok |-> FALSE, panic |-> FALSE]
\* the call does not return: the thread panics
Panic == [events |-> <<>>, ok |-> FALSE, panic |-> TRUE]

Event(kind, m, target, data) == [kind |-> kind, target |-> target, data |-> data, id |-> m.id]
Single(m) == Event("Single", m, None, None)
WithTarget(m, buffer) == Event("WithTarget", m, Some(buffer), None)
Broadcast(m, what, user_chans) == Event(what, m, None, Some(user_chans))
JoinedChannel(m) == Event("JoinedChannel", m, None, None)

\* an inbound message: command, up to five parameters, the nickname of its
\* source, the label and batch tags, and the arrival number the properties use to
\* tell events apart
Msg(cmd, a, b, c, d, e, src, label, batch, id) ==
    [a |-> a,
     b |-> b,
     id |-> id,
     cmd |-> cmd,
     c |-> c,
     d |-> d,
     e |-> e,
     src |-> src,
     label |-> label,
     batch |-> batch]

\* a message without tags
Plain(cmd, a, b, c, src) == Msg(cmd, a, b, c, None, None, src, None, None, 0)

\* ---------------------------------------------------------------- outbound shaper
\* the running byte counter of the scan: the weights of items 1..i
RECURSIVE Count(_, _)
Count(weights, i) == IF i = 0 THEN 0 ELSE Count(weights, i - 1) + weights[i]

\* scan + into_group_map: the bucket of item i is floor(counter / max_len);
\* each bucket lists its item indices in input order
ChunkOf(weights, i, max_len) == Count(weights, i) \div max_len

Chunks(weights, max_len) == {ChunkOf(weights, i, max_len) : i \in DOMAIN weights}

Bucket(weights, max_len, chunk) ==
    SelectSeq([i \in DOMAIN weights |-> i],
              LAMBDA i : ChunkOf(weights, i, max_len) = chunk)

\* into_values: the buckets in the (unspecified) iteration order `order`
GroupMap(weights, max_len, order) ==
    [k \in DOMAIN order |-> Bucket(weights, max_len, order[k])]

GroupOrders(weights, max_len) == Orderings(Chunks(weights, max_len))

CAP_MAX_LEN == BYTE_LIMIT - CAP_REQ_PREFIX
JOIN_MAX_LEN == BYTE_LIMIT - JOIN_PREFIX
MONITOR_MAX_LEN == BYTE_LIMIT - MONITOR_PREFIX

\* an outbound message: the command words, the comma- or space-joined items of
\* its list parameter, and the joined keys of a keyed JOIN
Out(command, items, keys) == [command |-> command, items |-> items, keys |-> keys]

\* the items of `list` at the indices of `bucket`
Pick(list, bucket) == [j \in DOMAIN bucket |-> list[bucket[j]]]

\* group_capability_requests: capability + a space; one CAP REQ per bucket.
\* len[x] is the byte length of the item x (str::len).
CapWeights(capabilities, len) ==
    [i \in DOMAIN capabilities |-> len[capabilities[i]] + 1]

CapOrders(capabilities, len) ==
    GroupOrders(CapWeights(capabilities, len), CAP_MAX_LEN)

group_capability_requests(capabilities, len, order) ==
    LET buckets == GroupMap(CapWeights(capabilities, len), CAP_MAX_LEN, order)
    IN  [k \in DOMAIN buckets |-> Out("CAP REQ", Pick(capabilities, buckets[k]), <<>>)]

\* group_joins: the channels without a key and those with one are grouped
\* apart; the keyless JOINs come first
WithoutKeys(chans, keys) == SelectSeq(chans, LAMBDA c : c \notin DOMAIN keys)
WithKeys(chans, keys) == SelectSeq(chans, LAMBDA c : c \in DOMAIN keys)

\* channel + a comma
KeylessWeights(chans, keys, len) ==
    LET without_keys == WithoutKeys(chans, keys)
    IN  [i \in DOMAIN without_keys |-> len[without_keys[i]] + 1]

\* channel + key + a comma for each
KeyedWeights(chans, keys, len) ==
    LET with_keys == WithKeys(chans, keys)
    IN  [i \in DOMAIN with_keys |-> len[with_keys[i]] + len[keys[with_keys[i]]] + 2]

KeylessOrders(chans, keys, len) ==
    GroupOrders(KeylessWeights(chans, keys, len), JOIN_MAX_LEN)

KeyedOrders(chans, keys, len) ==
    GroupOrders(KeyedWeights(chans, keys, len), JOIN_MAX_LEN)

\* the keyed JOINs chained before the keyless ones
group_joinsKeyedFirst(chans, keys, len, order1, order2) ==
    LET without_keys == WithoutKeys(chans, keys)
        with_keys == WithKeys(chans, keys)
        b1 == GroupMap(KeylessWeights(chans, keys, len), JOIN_MAX_LEN, order1)
        b2 == GroupMap(KeyedWeights(chans, keys, len), JOIN_MAX_LEN, order2)
        joins_without_keys ==
            [k \in DOMAIN b1 |-> Out("JOIN", Pick(without_keys, b1[k]), <<>>)]
        joins_with_keys ==
            [k \in DOMAIN b2 |->
                Out("JOIN", Pick(with_keys, b2[k]),
                    [j \in DOMAIN b2[k] |-> keys[with_keys[b2[k][j]]]])]
    IN  joins_with_keys \o joins_without_keys

group_joins(chans, keys, len, order1, order2) ==
    LET without_keys == WithoutKeys(chans, keys)
        with_keys == WithKeys(chans, keys)
        b1 == GroupMap(KeylessWeights(chans, keys, len), JOIN_MAX_LEN, order1)
        b2 == GroupMap(KeyedWeights(chans, keys, len), JOIN_MAX_LEN, order2)
        joins_without_keys ==
            [k \in DOMAIN b1 |-> Out("JOIN", Pick(without_keys, b1[k]), <<>>)]
        joins_with_keys ==
            [k \in DOMAIN b2 |->
                Out("JOIN", Pick(with_keys, b2[k]),
                    [j \in DOMAIN b2[k] |-> keys[with_keys[b2[k][j]]]])]
    IN  joins_without_keys \o joins_with_keys

\* group_monitors: the first target_limit targets, target + a comma
Limited(targets, target_limit) ==
    IF IsSome(target_limit) THEN Take(targets, Unwrap(target_limit)) ELSE targets

MonitorWeights(targets, target_limit, len) ==
    LET list == Limited(targets, target_limit)
    IN  [i \in DOMAIN list |-> len[list[i]] + 1]

MonitorOrders(targets, target_limit, len) ==
    GroupOrders(MonitorWeights(targets, target_limit, len), MONITOR_MAX_LEN)

group_monitors(targets, target_limit, len, order) ==
    LET list == Limited(targets, target_limit)
        buckets == GroupMap(MonitorWeights(targets, target_limit, len), MONITOR_MAX_LEN, order)
    IN  [k \in DOMAIN buckets |-> Out("MONITOR +", Pick(list, buckets[k]), <<>>)]

\* str::len of each of the strings the client itself handles
StrLen(strs) == [str \in strs |-> Len(str)]

\* ---------------------------------------------------------------- try_send
\* try_send fails when the channel has no free slot; a handler that sends with
\* `?` stops at the first failure, so of msgs the first `handle` are pushed
Accepted(msgs) == Take(msgs, handle)
AllSent(msgs) == Len(msgs) <= handle

\* the transport task takes the queued messages off the channel
Drain ==
    /\ handle < SinkCap
    /\ handle' = SinkCap
    /\ input' = [op |-> "drain"]
    /\ UNCHANGED <<config, sent, nickVars, chanmap, viewVars, labels, batches,
                   reroute_responses_to, capVars, registration_required_channels,
                   isupport, clock, hret, ret, hist, shVars>>

\* ---------------------------------------------------------------- Client::new
\* Instant::now()
InstantNow == clock

\* HighlightBlackout
Blackout(instant) == [instant |-> instant, state |-> "Blackout"]
HighlightReceiving == [state |-> "Receiving"]

NewClient(cfg) ==
    /\ config = cfg
    /\ handle = SinkCap
    /\ sent = <<>>
    /\ alt_nick = None
    /\ resolved_nick = None
    /\ chanmap = EmptyMap
    /\ channels = <<>>
    /\ users = EmptyMap
    /\ labels = EmptyMap
    /\ batches = EmptyMap
    /\ reroute_responses_to = None
    /\ registration_step = Start
    /\ listed_caps = <<>>
    /\ supports_labels = FALSE
    /\ supports_away_notify = FALSE
    /\ supports_account_notify = FALSE
    /\ supports_extended_join = FALSE
    /\ supports_read_marker = FALSE
    /\ registration_required_channels = <<>>
    /\ isupport = EmptyMap
    /\ clock = 0
    /\ highlight_blackout = Blackout(InstantNow)
    /\ hret = Ok(<<>>)
    /\ ret = Ok(<<>>)
    /\ input = [op |-> "new"]

\* Client::nickname
nickname == IF IsSome(resolved_nick) THEN Unwrap(resolved_nick) ELSE config.nickname

\* ---------------------------------------------------------------- Client::connect
\* Option::unwrap_or
UnwrapOr(opt, default) == IF IsSome(opt) THEN Unwrap(opt) ELSE default

\* the handshake with NICK put before CAP LS
ConnectMessagesNickFirst ==
    <<Out("NICK", <<config.nickname>>, <<>>), Out("CAP LS 302", <<>>, <<>>)>>
    \o (IF config.password THEN <<Out("PASS", <<>>, <<>>)>> ELSE <<>>)
    \o <<Out("USER", <<UnwrapOr(config.username, config.nickname),
                       UnwrapOr(config.realname, config.nickname)>>, <<>>)>>

ConnectMessages ==
    <<Out("CAP LS 302", <<>>, <<>>)>>
    \o (IF config.password THEN <<Out("PASS", <<>>, <<>>)>> ELSE <<>>)
    \o <<Out("NICK", <<config.nickname>>, <<>>),
         Out("USER", <<UnwrapOr(config.username, config.nickname),
                       UnwrapOr(config.realname, config.nickname)>>, <<>>)>>

connect ==
    /\ sent' = Accepted(ConnectMessages)
    /\ handle' = handle - Len(sent')
    /\ IF AllSent(ConnectMessages)
          THEN registration_step' = List /\ ret' = Ok(<<>>)
          ELSE registration_step' = registration_step /\ ret' = Err
    /\ input' = [op |-> "connect"]
    /\ UNCHANGED <<config, nickVars, chanmap, viewVars, labels, batches,
                   reroute_responses_to, listed_caps, supports_labels,
                   supports_away_notify, supports_account_notify,
                   supports_extended_join, supports_read_marker,
                   registration_required_channels, isupport, clock, hret, hist, shVars>>

\* ---------------------------------------------------------------- CAP handlers
StartsWithSasl(cap) == cap \in {"sasl", "sasl=PLAIN"}
ContainsSasl(cap) == cap \in {"sasl", "sasl=PLAIN"}

\* the capabilities the client asks for, in the order the code pushes them
CapOrder ==
    <<"invite-notify", "userhost-in-names", "away-notify", "message-tags",
      "server-time", "chghost", "extended-monitor", "account-notify",
      "extended-join", "batch", "labeled-response", "echo-message", "sasl",
      "multi-prefix", "draft/read-marker">>

\* CAP LS: what is requested once the list is complete
WantedLS(cap, listed) ==
    CASE cap = "extended-join" ->
            Contains(listed, "account-notify") /\ Contains(listed, "extended-join")
      [] cap = "echo-message" ->
            Contains(listed, "labeled-response") /\ Contains(listed, "echo-message")
      [] cap = "sasl" -> \E i \in DOMAIN listed : StartsWithSasl(listed[i])
      [] OTHER -> Contains(listed, cap)

\* a client that asks for nothing
RequestedLSNothing(listed) == <<>>

RequestedLS(listed) == SelectSeq(CapOrder, LAMBDA cap : WantedLS(cap, listed))

\* CAP NEW: what is requested of the newly advertised capabilities
WantedNEW(cap, listed, new_caps) ==
    CASE cap = "extended-join" ->
            /\ Contains(listed, "account-notify") \/ Contains(new_caps, "account-notify")
            /\ Contains(new_caps, "extended-join")
      [] cap = "echo-message" ->
            /\ Contains(listed, "labeled-response") \/ Contains(new_caps, "labeled-response")
            /\ Contains(new_caps, "echo-message")
      [] cap = "sasl" -> FALSE
      [] OTHER -> Contains(new_caps, cap)

RequestedNEW(listed, new_caps) ==
    SelectSeq(CapOrder, LAMBDA cap : WantedNEW(cap, listed, new_caps))

CapEnd == Out("CAP END", <<>>, <<>>)

\* b.as_ref().or(a.as_ref())
CapsArg(m) == IF IsSome(m.b) THEN m.b ELSE m.a

\* what a handler leaves alone besides the capability state
UnchangedByCap ==
    UNCHANGED <<config, nickVars, chanmap, registration_required_channels, isupport>>

\* the send of msgs with `?`, and the value returned when nothing else fails
SendAll(m, msgs) ==
    /\ sent' = Accepted(msgs)
    /\ handle' = handle - Len(sent')
    /\ hret' = IF AllSent(msgs) THEN Ok(<<Single(m)>>) ELSE Err

SendNothing(r) ==
    /\ sent' = <<>>
    /\ handle' = handle
    /\ hret' = r

HandleCapLS(m) ==
    IF ~IsSome(m.a)
      THEN SendNothing(Ok(<<>>)) /\ UNCHANGED capVars /\ UnchangedByCap
      ELSE LET caps == IF IsSome(m.b) THEN Unwrap(m.b) ELSE Unwrap(m.a)
               asterisk == IsSome(m.b)
               listed == listed_caps \o caps
               requested == RequestedLS(listed)
           IN  /\ listed_caps' = listed
               /\ UNCHANGED <<supports_labels, supports_away_notify,
                              supports_account_notify, supports_extended_join,
                              supports_read_marker>>
               /\ UnchangedByCap
               /\ IF asterisk
                     THEN /\ registration_step' = registration_step
                          /\ SendNothing(Ok(<<Single(m)>>))
                     ELSE IF requested # <<>>
                       THEN /\ registration_step' = Req
                            /\ \E order \in CapOrders(requested, StrLen(Range(requested))) :
                                 SendAll(m, group_capability_requests(
                                               requested, StrLen(Range(requested)), order))
                       ELSE /\ registration_step' = End
                            /\ SendAll(m, <<CapEnd>>)

\* Sasl::command and Sasl::param as texts (tuples); the base64 text is kept as
\* the triple it encodes
SaslCommand(sasl) == IF sasl.kind = "Plain" THEN <<"PLAIN">> ELSE <<"EXTERNAL">>

SaslParam(sasl) ==
    IF sasl.kind = "Plain"
      THEN <<"base64", sasl.username, sasl.username, sasl.password>>
      ELSE <<"+">>

\* the CAP ACK arm never taking the SASL branch
SaslNeverChosen(supports_sasl) == FALSE

\* self.config.sasl.as_ref().filter(|_| supports_sasl) is Some
SaslChosen(supports_sasl) == IsSome(config.sasl) /\ supports_sasl

HandleCapACK(m) ==
    IF CapsArg(m) = None
      THEN SendNothing(Err) /\ UNCHANGED capVars /\ UnchangedByCap
      ELSE LET caps == Unwrap(CapsArg(m))
               supports_sasl == \E i \in DOMAIN caps : ContainsSasl(caps[i])
           IN  /\ supports_labels' = (supports_labels \/ Contains(caps, "labeled-response"))
               /\ supports_away_notify' = (supports_away_notify \/ Contains(caps, "away-notify"))
               /\ supports_account_notify' =
                      (supports_account_notify \/ Contains(caps, "account-notify"))
               /\ supports_extended_join' =
                      (supports_extended_join \/ Contains(caps, "extended-join"))
               /\ supports_read_marker' =
                      (supports_read_marker \/ Contains(caps, "draft/read-marker"))
               /\ listed_caps' = listed_caps
               /\ UnchangedByCap
               /\ IF SaslChosen(supports_sasl)
                     THEN /\ registration_step' = Sasl
                          /\ SendAll(m, <<Out("AUTHENTICATE",
                                              <<SaslCommand(Unwrap(config.sasl))>>, <<>>)>>)
                     ELSE /\ registration_step' = End
                          /\ SendAll(m, <<CapEnd>>)

HandleCapNAK(m) ==
    IF CapsArg(m) = None
      THEN SendNothing(Err) /\ UNCHANGED capVars /\ UnchangedByCap
      ELSE /\ UNCHANGED <<listed_caps, supports_labels, supports_away_notify,
                          supports_account_notify, supports_extended_join,
                          supports_read_marker>>
           /\ UnchangedByCap
           /\ IF registration_step < Sasl
                 THEN /\ registration_step' = End
                      /\ SendAll(m, <<CapEnd>>)
                 ELSE /\ registration_step' = registration_step
                      /\ SendNothing(Ok(<<Single(m)>>))

HandleCapNEW(m) ==
    IF CapsArg(m) = None
      THEN SendNothing(Err) /\ UNCHANGED capVars /\ UnchangedByCap
      ELSE LET new_caps == Unwrap(CapsArg(m))
               requested == RequestedNEW(listed_caps, new_caps)
           IN  /\ UNCHANGED <<registration_step, supports_labels, supports_away_notify,
                              supports_account_notify, supports_extended_join,
                              supports_read_marker>>
               /\ UnchangedByCap
               /\ \E order \in CapOrders(requested, StrLen(Range(requested))) :
                    LET msgs == group_capability_requests(
                                    requested, StrLen(Range(requested)), order)
                    IN  /\ SendAll(m, msgs)
                        \* a failed send returns before listed_caps is extended
                        /\ listed_caps' = IF AllSent(msgs) THEN listed_caps \o new_caps
                                                            ELSE listed_caps

HandleCapDEL(m) ==
    IF CapsArg(m) = None
      THEN SendNothing(Err) /\ UNCHANGED capVars /\ UnchangedByCap
      ELSE LET del_caps == Unwrap(CapsArg(m))
           IN  /\ supports_labels' = (supports_labels /\ ~Contains(del_caps, "labeled-response"))
               /\ supports_away_notify' =
                      (supports_away_notify /\ ~Contains(del_caps, "away-notify"))
               /\ supports_account_notify' =
                      (supports_account_notify /\ ~Contains(del_caps, "account-notify"))
               /\ supports_extended_join' =
                      (supports_extended_join /\ ~Contains(del_caps, "extended-join"))
               /\ supports_read_marker' =
                      (supports_read_marker /\ ~Contains(del_caps, "draft/read-marker"))
               /\ listed_caps' = SelectSeq(listed_caps, LAMBDA cap : ~Contains(del_caps, cap))
               /\ registration_step' = registration_step
               /\ UnchangedByCap
               /\ SendNothing(Ok(<<Single(m)>>))

\* AUTHENTICATE +
HandleAUTHENTICATE(m) ==
    /\ UNCHANGED <<listed_caps, supports_labels, supports_away_notify,
                   supports_account_notify, supports_extended_join, supports_read_marker>>
    /\ UnchangedByCap
    /\ IF IsSome(config.sasl)
          THEN LET msgs == <<Out("AUTHENTICATE", <<SaslParam(Unwrap(config.sasl))>>, <<>>),
                             CapEnd>>
               IN  /\ SendAll(m, msgs)
                   \* the step is set between the two sends
                   /\ registration_step' = IF handle >= 1 THEN End ELSE registration_step
          ELSE /\ registration_step' = registration_step
               /\ SendNothing(Ok(<<Single(m)>>))

\* ---------------------------------------------------------------- label / batch correlator
\* Context::new, Context::is_whois
NewContext(command, buffer) ==
    [kind |-> IF command = "WHOIS" THEN "Whois" ELSE "Buffer", buffer |-> buffer]

is_whois(context) == IsSome(context) /\ Unwrap(context).kind = "Whois"

\* the label tag names an outstanding label
LabelMatches(m) == IsSome(m.label) /\ Unwrap(m.label) \in DOMAIN labels

\* the lookup with labels.get(&label) in place of labels.remove(&label)
LabelsAfterLookupKept(m) == labels

\* the removal of the matched label models labels.remove(&label)
LabelsAfterLookup(m) ==
    IF LabelMatches(m) THEN MapRemove(labels, Unwrap(m.label)) ELSE labels

\* the context with the batch asked before the label
ResolveContextBatchFirst(m) ==
    IF IsSome(m.batch) /\ Unwrap(m.batch) \in DOMAIN batches
         /\ IsSome(batches[Unwrap(m.batch)].context)
      THEN batches[Unwrap(m.batch)].context
      ELSE IF LabelMatches(m) THEN Some(labels[Unwrap(m.label)]) ELSE None

\* the context of a top-level handle call (parent_context = None): the label's
\* context, else the context of the batch the message is tagged with
ResolveContext(m) ==
    IF LabelMatches(m)
      THEN Some(labels[Unwrap(m.label)])
      ELSE IF IsSome(m.batch) /\ Unwrap(m.batch) \in DOMAIN batches
             THEN batches[Unwrap(m.batch)].context
             ELSE None

\* Batch::new
NewBatch(context) == [events |-> <<>>, context |-> context]

\* stop_reroute
StopNumerics ==
    {"RPL_ENDOFWHO", "RPL_ENDOFWHOIS", "RPL_ENDOFWHOWAS", "ERR_NOSUCHNICK",
     "ERR_NOSUCHSERVER", "ERR_NONICKNAMEGIVEN", "ERR_WASNOSUCHNICK",
     "ERR_NEEDMOREPARAMS", "ERR_USERSDONTMATCH", "RPL_UMODEIS", "ERR_UMODEUNKNOWNFLAG"}

\* no numeric ending the reroute
stop_rerouteNever(command) == FALSE

stop_reroute(command) == command \in StopNumerics

\* the commands that are Command::Numeric(..) or Command::Unknown(..)
IsNumericOrUnknown(command) ==
    \/ command \in StopNumerics
    \/ command \in {"UNKNOWN", "RPL_WHOISUSER", "RPL_WELCOME", "RPL_NAMREPLY",
                     "RPL_ENDOFNAMES", "RPL_WHOREPLY", "RPL_WHOSPCRPL", "RPL_ISUPPORT",
                     "RPL_LOGGEDIN", "RPL_LOGGEDOUT", "RPL_UNAWAY", "RPL_NOWAWAY",
                     "RPL_TOPIC", "RPL_TOPICWHOTIME", "ERR_NOCHANMODES",
                     "ERR_NICKNAMEINUSE", "ERR_ERRONEUSNICKNAME"}

\* what the handlers of one message never touch
UnchangedByHandle == UNCHANGED <<viewVars, clock, shVars>>

\* a handler that changes nothing and sends nothing
NoEffect(r) ==
    /\ SendNothing(r)
    /\ UNCHANGED <<config, nickVars, chanmap, capVars, registration_required_channels,
                   isupport>>

\* the BATCH arm with the events of a finished nested batch returned at once
\* instead of being handed to the parent batch
HandleBATCHReturnNested(m, context) ==
    /\ NoEffect(IF m.a = ""
                  THEN Err
                  ELSE IF m.a = "-" /\ m.b \in DOMAIN batches
                         THEN Ok(batches[m.b].events)
                         ELSE Ok(<<>>))
    /\ batches' =
          CASE m.a = "+" -> MapInsert(batches, m.b, NewBatch(context))
            [] m.a = "-" /\ m.b \in DOMAIN batches -> MapRemove(batches, m.b)
            [] OTHER -> batches

\* the BATCH arm with the events of a finished nested batch put in front of
\* the events the parent batch already holds
HandleBATCHPrepend(m, context) ==
    /\ NoEffect(IF m.a = ""
                  THEN Err
                  ELSE IF m.a = "-" /\ m.b \in DOMAIN batches
                              /\ ~(IsSome(m.batch)
                                    /\ Unwrap(m.batch) \in DOMAIN batches \ {m.b})
                         THEN Ok(batches[m.b].events)
                         ELSE Ok(<<>>))
    /\ batches' =
          CASE m.a = "+" -> MapInsert(batches, m.b, NewBatch(context))
            [] m.a = "-" /\ m.b \in DOMAIN batches ->
                 LET finished == batches[m.b]
                     rest == MapRemove(batches, m.b)
                 IN  IF IsSome(m.batch) /\ Unwrap(m.batch) \in DOMAIN rest
                       THEN [rest EXCEPT ![Unwrap(m.batch)].events = finished.events \o @]
                       ELSE rest
            [] OTHER -> batches

\* the BATCH arm: m.a is the symbol, m.b the reference
HandleBATCH(m, context) ==
    /\ NoEffect(IF m.a = ""
                  THEN Err
                  ELSE IF m.a = "-" /\ m.b \in DOMAIN batches
                              /\ ~(IsSome(m.batch)
                                    /\ Unwrap(m.batch) \in DOMAIN batches \ {m.b})
                         THEN Ok(batches[m.b].events)
                         ELSE Ok(<<>>))
    /\ batches' =
          CASE m.a = "+" -> MapInsert(batches, m.b, NewBatch(context))
            [] m.a = "-" /\ m.b \in DOMAIN batches ->
                 LET finished == batches[m.b]
                     rest == MapRemove(batches, m.b)
                 IN  IF IsSome(m.batch) /\ Unwrap(m.batch) \in DOMAIN rest
                       THEN [rest EXCEPT ![Unwrap(m.batch)].events = @ \o finished.events]
                       ELSE rest
            [] OTHER -> batches

\* ---------------------------------------------------------------- strings
\* Names are tuples of one-character strings; CharCode is the byte of a character.
CharCode(ch) ==
    CASE ch = "#" -> 35
      [] ch = "$" -> 36
      [] ch = "&" -> 38
      [] ch = "a" -> 97
      [] ch = "b" -> 98
      [] ch = "c" -> 99
      [] ch = "e" -> 101
      [] ch = "m" -> 109
      [] OTHER -> 122

\* str::cmp: byte-wise lexicographic order
RECURSIVE StrCmp(_, _)
StrCmp(x, y) ==
    IF x = <<>> /\ y = <<>> THEN "Equal"
    ELSE IF x = <<>> THEN "Less"
    ELSE IF y = <<>> THEN "Greater"
    ELSE IF CharCode(x[1]) < CharCode(y[1]) THEN "Less"
    ELSE IF CharCode(x[1]) > CharCode(y[1]) THEN "Greater"
    ELSE StrCmp(Tail(x), Tail(y))

\* str::trim_start_matches(char): drops every leading ch
RECURSIVE trim_start_matches(_, _)
trim_start_matches(str, ch) ==
    IF str # <<>> /\ str[1] = ch THEN trim_start_matches(Tail(str), ch) ELSE str

\* ---------------------------------------------------------------- ISUPPORT views
DEFAULT_CHANNEL_PREFIXES == {"#", "&"}

\* Client::chantypes
chantypes ==
    IF "CHANTYPES" \in DOMAIN isupport /\ IsSome(isupport["CHANTYPES"])
      THEN Unwrap(isupport["CHANTYPES"])
      ELSE DEFAULT_CHANNEL_PREFIXES

\* Client::is_channel (proto::is_channel): the target starts with a channel prefix
is_channel(target) == target # <<>> /\ target[1] \in chantypes

WHO_POLL_TOKEN == "poll"

\* ---------------------------------------------------------------- users
\* User::from(prefix): the attributes a message prefix carries
UserFromPrefix(nick) ==
    [nickname |-> nick, host |-> "h", accountname |-> None, away |-> FALSE, access |-> {}]

\* User's Eq / Hash: by nickname only
UserEq(u, v) == u.nickname = v.nickname

UsersContains(set, u) == \E v \in set : UserEq(v, u)
UsersGet(set, u) == CHOOSE v \in set : UserEq(v, u)

\* HashSet::remove / the removal half of HashSet::take
UsersRemove(set, u) == {v \in set : ~UserEq(v, u)}

\* HashSet::insert: a value equal to a member is not inserted
UsersInsertDup(set, u) == set \cup {u}
UsersInsert(set, u) == IF UsersContains(set, u) THEN set ELSE set \cup {u}

with_nickname(u, nick) == [u EXCEPT !.nickname = nick]
with_accountname(u, name) ==
    [u EXCEPT !.accountname = IF name = "*" THEN None ELSE Some(name)]
with_username_and_hostname(u, host) == [u EXCEPT !.host = host]
update_away(u, away) == [u EXCEPT !.away = away]
update_access_level(u, op, mode) ==
    [u EXCEPT !.access = IF op = "+" THEN @ \cup {mode} ELSE @ \ {mode}]

\* the change a handler makes to the user it took out of the set
Modified(user, change) ==
    CASE change[1] = "nickname" -> with_nickname(user, change[2])
      [] change[1] = "accountname" -> with_accountname(user, change[2])
      [] change[1] = "hostname" -> with_username_and_hostname(user, change[2])
      [] change[1] = "away" -> update_away(user, change[2])
      [] change[1] = "access" -> update_access_level(user, change[2], change[3])

\* take(&u) without the insert
UsersUpdateTaken(set, u, change) == UsersRemove(set, u)

\* take(&u), modify, insert
UsersUpdate(set, u, change) ==
    IF UsersContains(set, u)
      THEN UsersInsert(UsersRemove(set, u), Modified(UsersGet(set, u), change))
      ELSE set

\* Channel::default
DefaultTopic == [content |-> None, who |-> None, time |-> None]

DefaultChannel ==
    [users |-> {}, last_who |-> None, names_init |-> FALSE, topic |-> DefaultTopic]

\* WhoStatus
Requested(instant, token) == Some([instant |-> instant, state |-> "Requested", token |-> token])
Receiving(token) == Some([state |-> "Receiving", token |-> token])
Done(instant) == Some([instant |-> instant, state |-> "Done"])

\* matches!(last_who, Some(WhoStatus::Requested(_, token)))
IsRequested(last_who, token) ==
    /\ IsSome(last_who)
    /\ Unwrap(last_who).state = "Requested"
    /\ Unwrap(last_who).token = token

\* the same update of the user set of every channel
UpdateAll(u, change) ==
    [c \in DOMAIN chanmap |-> [chanmap[c] EXCEPT !.users = UsersUpdate(@, u, change)]]

\* Channel::update_user_away
update_user_away(channel, nick, flags) ==
    IF flags \in {"G", "H"}
      THEN [channel EXCEPT
              !.users = UsersUpdate(@, UserFromPrefix(nick),
                                    <<"away", flags = "G">>)]
      ELSE channel

\* Channel::update_user_accountname
update_user_accountname(channel, nick, name) ==
    [channel EXCEPT
       !.users = UsersUpdate(@, UserFromPrefix(nick), <<"accountname", name>>)]

\* Client::users, Client::channels, Client::user_channels: the derived views
UsersView(channel) == IF channel \in DOMAIN users THEN users[channel] ELSE <<>>

user_channels(nick) ==
    SelectSeq(channels,
              LAMBDA c : \E i \in DOMAIN UsersView(c) : UsersView(c)[i].nickname = nick)

\* what the channel handlers leave alone
UnchangedByChan ==
    UNCHANGED <<config, alt_nick, capVars, registration_required_channels, isupport>>

HandleNICK(m) ==
    IF ~IsSome(m.src)
      THEN NoEffect(Err)
      ELSE LET old_user == UserFromPrefix(Unwrap(m.src))
               ourself == nickname = old_user.nickname
           IN  /\ resolved_nick' = IF ourself THEN Some(m.a) ELSE resolved_nick
               /\ chanmap' = UpdateAll(old_user, <<"nickname", m.a>>)
               /\ SendNothing(Ok(<<Broadcast(m, "Nickname", user_channels(old_user.nickname))>>))
               /\ UnchangedByChan

HandleQUIT(m) ==
    IF ~IsSome(m.src)
      THEN NoEffect(Err)
      ELSE LET user == UserFromPrefix(Unwrap(m.src))
           IN  /\ chanmap' = [c \in DOMAIN chanmap |->
                                 [chanmap[c] EXCEPT !.users = UsersRemove(@, user)]]
               /\ SendNothing(Ok(<<Broadcast(m, "Quit", user_channels(user.nickname))>>))
               /\ UNCHANGED resolved_nick
               /\ UnchangedByChan

\* the PART arm removing the channel whoever leaves it
HandlePARTAnyone(m) ==
    IF ~IsSome(m.src)
      THEN NoEffect(Err)
      ELSE /\ chanmap' = MapRemove(chanmap, m.a)
           /\ SendNothing(Ok(<<Single(m)>>))
           /\ UNCHANGED resolved_nick
           /\ UnchangedByChan

HandlePART(m) ==
    IF ~IsSome(m.src)
      THEN NoEffect(Err)
      ELSE LET user == UserFromPrefix(Unwrap(m.src))
           IN  /\ chanmap' =
                     IF user.nickname = nickname
                       THEN MapRemove(chanmap, m.a)
                       ELSE IF m.a \in DOMAIN chanmap
                              THEN [chanmap EXCEPT ![m.a].users = UsersRemove(@, user)]
                              ELSE chanmap
               /\ SendNothing(Ok(<<Single(m)>>))
               /\ UNCHANGED resolved_nick
               /\ UnchangedByChan

\* the WHO the client sends for a channel, and the token it stores
WhoMessage(channel) ==
    IF "WHOX" \in DOMAIN isupport
      THEN Out("WHO", <<channel, IF supports_account_notify THEN "tcnfa" ELSE "tcnf",
                        WHO_POLL_TOKEN>>, <<>>)
      ELSE Out("WHO", <<channel>>, <<>>)

WhoToken == IF "WHOX" \in DOMAIN isupport THEN Some(WHO_POLL_TOKEN) ELSE None

HandleJOIN(m) ==
    IF ~IsSome(m.src)
      THEN NoEffect(Err)
      ELSE LET user == UserFromPrefix(Unwrap(m.src))
               inserted == MapInsert(chanmap, m.a, DefaultChannel)
           IN  /\ UNCHANGED resolved_nick
               /\ UnchangedByChan
               /\ IF user.nickname = nickname
                     THEN IF config.who_poll_enabled
                            THEN IF handle >= 1
                                   THEN /\ chanmap' = [inserted EXCEPT
                                                         ![m.a].last_who =
                                                            Requested(InstantNow, WhoToken)]
                                        /\ sent' = <<WhoMessage(m.a)>>
                                        /\ handle' = handle - 1
                                        /\ hret' = Ok(<<JoinedChannel(m)>>)
                                   ELSE /\ chanmap' = inserted
                                        /\ SendNothing(Err)
                            ELSE /\ chanmap' = inserted
                                 /\ SendNothing(Ok(<<JoinedChannel(m)>>))
                     ELSE /\ chanmap' =
                               IF m.a \in DOMAIN chanmap
                                 THEN [chanmap EXCEPT
                                         ![m.a].users =
                                            UsersInsert(@,
                                               IF supports_extended_join /\ IsSome(m.b)
                                                 THEN with_accountname(user, Unwrap(m.b))
                                                 ELSE user)]
                                 ELSE chanmap
                          /\ SendNothing(Ok(<<Single(m)>>))

\* m.a is the channel, m.b the victim
HandleKICK(m) ==
    /\ chanmap' =
          IF m.b = nickname
            THEN MapRemove(chanmap, m.a)
            ELSE IF m.a \in DOMAIN chanmap
                   THEN [chanmap EXCEPT ![m.a].users = UsersRemove(@, UserFromPrefix(m.b))]
                   ELSE chanmap
    /\ SendNothing(Ok(<<Single(m)>>))
    /\ UNCHANGED resolved_nick
    /\ UnchangedByChan

\* m.a is the optional away message
HandleAWAY(m) ==
    IF ~IsSome(m.src)
      THEN NoEffect(Err)
      ELSE /\ chanmap' = UpdateAll(UserFromPrefix(Unwrap(m.src)),
                                    <<"away", IsSome(m.a)>>)
           /\ SendNothing(Ok(<<Single(m)>>))
           /\ UNCHANGED resolved_nick
           /\ UnchangedByChan

\* the arm's guard taken without looking at resolved_nick
NickUnresolvedAlways == TRUE

\* the guard of the ERR_NICKNAMEINUSE / ERR_ERRONEUSNICKNAME arm
NickUnresolved == ~IsSome(resolved_nick)

\* ERR_NICKNAMEINUSE / ERR_ERRONEUSNICKNAME while resolved_nick is None: the
\* index of the alt nick to try next
NextAltNick ==
    IF IsSome(alt_nick)
      THEN IF Unwrap(alt_nick) = Len(config.alt_nicks) - 1
             THEN None
             ELSE Some(Unwrap(alt_nick) + 1)
      ELSE IF config.alt_nicks # <<>> THEN Some(0) ELSE None

\* alt_nicks.get(i) of the 0-based index i
AltNickAt(index) ==
    IF IsSome(index) /\ Unwrap(index) < Len(config.alt_nicks)
      THEN Some(config.alt_nicks[Unwrap(index) + 1])
      ELSE None

HandleNICKINUSE(m) ==
    LET nick == AltNickAt(NextAltNick)
    IN  /\ alt_nick' = NextAltNick
        /\ SendAll(m, IF IsSome(nick) THEN <<Out("NICK", <<Unwrap(nick)>>, <<>>)>> ELSE <<>>)
        /\ UNCHANGED <<config, resolved_nick, chanmap, capVars,
                       registration_required_channels, isupport>>

\* RPL_WELCOME: the messages sent after the nick is adopted; the on_connect
\* entries are the configured lines that parse as commands
NickServ(text) == Out("PRIVMSG", <<"NickServ", text>>, <<>>)

GhostMessages(nick) ==
    IF IsSome(config.nick_password) /\ config.should_ghost /\ nick # config.nickname
      THEN [i \in DOMAIN config.ghost_sequence |->
              NickServ(<<config.ghost_sequence[i], config.nickname,
                         Unwrap(config.nick_password)>>)]
      ELSE <<>>

IdentifyMessages(nick) ==
    IF ~IsSome(config.nick_password) THEN <<>>
    ELSE LET pass == Unwrap(config.nick_password)
         IN  IF config.nick_identify_syntax = Some("PasswordNick")
               THEN <<NickServ(<<"IDENTIFY", pass, config.nickname>>)>>
             ELSE IF config.nick_identify_syntax = Some("NickPassword")
               THEN <<NickServ(<<"IDENTIFY", config.nickname, pass>>)>>
             ELSE IF nick = config.nickname
               THEN <<NickServ(<<"IDENTIFY", pass>>)>>
             ELSE <<NickServ(<<"IDENTIFY", config.nickname, pass>>)>>

\* RPL_WELCOME sending the user modes before the NickServ messages
WelcomeMessagesModeFirst(nick, joins) ==
    (IF IsSome(config.umodes)
       THEN <<Out("MODE", <<nick, Unwrap(config.umodes)>>, <<>>)>> ELSE <<>>)
    \o GhostMessages(nick) \o IdentifyMessages(nick)
    \o [i \in DOMAIN config.on_connect |-> Out(config.on_connect[i], <<>>, <<>>)]
    \o joins

WelcomeMessages(nick, joins) ==
    GhostMessages(nick) \o IdentifyMessages(nick)
    \o (IF IsSome(config.umodes)
          THEN <<Out("MODE", <<nick, Unwrap(config.umodes)>>, <<>>)>> ELSE <<>>)
    \o [i \in DOMAIN config.on_connect |-> Out(config.on_connect[i], <<>>, <<>>)]
    \o joins

\* m.a is the optional first argument
HandleWELCOME(m) ==
    IF ~IsSome(m.a)
      THEN NoEffect(Err)
      ELSE LET nick == Unwrap(m.a)
               keys == config.channel_keys
               len == StrLen(Range(config.channels) \cup {keys[c] : c \in DOMAIN keys})
           IN  /\ resolved_nick' = Some(nick)
               /\ \E o1 \in KeylessOrders(config.channels, keys, len),
                      o2 \in KeyedOrders(config.channels, keys, len) :
                     SendAll(m, WelcomeMessages(nick,
                                   group_joins(config.channels, keys, len, o1, o2)))
               /\ UNCHANGED <<config, alt_nick, chanmap, capVars,
                              registration_required_channels, isupport>>

\* what is left alone when the pending channels are flushed
UnchangedByFlush == UNCHANGED <<config, nickVars, capVars, isupport>>

\* m.a is the account name
HandleACCOUNT(m) ==
    IF ~IsSome(m.src)
      THEN NoEffect(Err)
      ELSE LET old_user == UserFromPrefix(Unwrap(m.src))
               pending == registration_required_channels
               keys == config.channel_keys
               len == StrLen(Range(pending) \cup {keys[c] : c \in DOMAIN keys})
           IN  /\ chanmap' = UpdateAll(old_user, <<"accountname", m.a>>)
               /\ UnchangedByFlush
               /\ IF old_user.nickname = nickname /\ m.a # "*" /\ pending # <<>>
                     THEN \E o1 \in KeylessOrders(pending, keys, len),
                             o2 \in KeyedOrders(pending, keys, len) :
                            LET msgs == group_joins(pending, keys, len, o1, o2)
                            IN  /\ SendAll(m, msgs)
                                /\ registration_required_channels' =
                                      IF AllSent(msgs) THEN <<>> ELSE pending
                     ELSE /\ SendNothing(Ok(<<Single(m)>>))
                          /\ UNCHANGED registration_required_channels

\* RPL_LOGGEDIN: m.a is the optional account name (args.first()); the pending
\* channels are flushed before the account name is looked at
HandleLOGGEDIN(m) ==
    LET old_user == UserFromPrefix(nickname)
        pending == registration_required_channels
        keys == config.channel_keys
        len == StrLen(Range(pending) \cup {keys[c] : c \in DOMAIN keys})
    IN  /\ UnchangedByFlush
        /\ \E o1 \in KeylessOrders(pending, keys, len),
              o2 \in KeyedOrders(pending, keys, len) :
             LET msgs == IF pending # <<>> THEN group_joins(pending, keys, len, o1, o2)
                                           ELSE <<>>
             IN  /\ sent' = Accepted(msgs)
                 /\ handle' = handle - Len(sent')
                 /\ registration_required_channels' = IF AllSent(msgs) THEN <<>> ELSE pending
                 /\ hret' = IF ~AllSent(msgs) \/ (~supports_account_notify /\ ~IsSome(m.a))
                              THEN Err ELSE Ok(<<Single(m)>>)
                 /\ chanmap' = IF AllSent(msgs) /\ ~supports_account_notify /\ IsSome(m.a)
                                 THEN UpdateAll(old_user, <<"accountname", Unwrap(m.a)>>)
                                 ELSE chanmap

\* RPL_LOGGEDOUT
HandleLOGGEDOUT(m) ==
    /\ chanmap' = IF ~supports_account_notify
                    THEN UpdateAll(UserFromPrefix(nickname), <<"accountname", "*">>)
                    ELSE chanmap
    /\ SendNothing(Ok(<<Single(m)>>))
    /\ UNCHANGED <<config, nickVars, capVars, registration_required_channels, isupport>>

\* args[1] of a numeric with fewer than two arguments: the index is out of bounds
TopicIndexed(m, r) == IF IsSome(m.a) THEN r ELSE Panic

\* RPL_TOPIC: m.a is the optional channel (args[1]), m.b the optional topic
\* (args.get(2))
HandleRPLTOPIC(m) ==
    LET tracked == IsSome(m.a) /\ Unwrap(m.a) \in DOMAIN chanmap
    IN  IF tracked /\ IsSome(m.b)
          THEN /\ chanmap' = [chanmap EXCEPT ![Unwrap(m.a)].topic.content = m.b]
               /\ SendNothing(Ok(<<Single(m)>>))
               /\ UNCHANGED <<config, nickVars, capVars, registration_required_channels,
                              isupport>>
          ELSE NoEffect(TopicIndexed(m, IF tracked THEN Err ELSE Ok(<<Single(m)>>)))

\* str::parse::<u64> of the timestamp text
ParsesAsU64(text) == text \in {"0", "1"}

\* RPL_TOPICWHOTIME: m.a is the optional channel (args[1]), m.b the optional
\* nickname (args.get(2)), m.c the optional timestamp text (args.get(3)); who is
\* set before the timestamp is looked at
HandleRPLTOPICWHOTIME(m) ==
    LET tracked == IsSome(m.a) /\ Unwrap(m.a) \in DOMAIN chanmap
    IN  IF tracked /\ IsSome(m.b)
          THEN /\ chanmap' =
                     IF IsSome(m.c) /\ ParsesAsU64(Unwrap(m.c))
                       THEN [chanmap EXCEPT ![Unwrap(m.a)].topic.who = m.b,
                                            ![Unwrap(m.a)].topic.time = m.c]
                       ELSE [chanmap EXCEPT ![Unwrap(m.a)].topic.who = m.b]
               /\ SendNothing(IF IsSome(m.c) /\ ParsesAsU64(Unwrap(m.c))
                                THEN Ok(<<Single(m)>>) ELSE Err)
               /\ UNCHANGED <<config, nickVars, capVars, registration_required_channels,
                              isupport>>
          ELSE NoEffect(TopicIndexed(m, IF tracked THEN Err ELSE Ok(<<Single(m)>>)))

\* the ERR_NOCHANMODES arm queueing whatever channel the numeric names
HandleNOCHANMODESAnyChannel(m) ==
    IF ~IsSome(m.a)
      THEN NoEffect(Err)
      ELSE /\ registration_required_channels' =
                 Append(registration_required_channels, Unwrap(m.a))
           /\ SendNothing(Ok(<<Single(m)>>))
           /\ UNCHANGED <<config, nickVars, chanmap, capVars, isupport>>

\* ERR_NOCHANMODES, read as ERR_NEEDREGGEDNICK for a configured channel that is
\* not joined; m.a is the optional channel (args.get(1))
HandleNOCHANMODES(m) ==
    IF ~IsSome(m.a)
      THEN NoEffect(Err)
      ELSE LET channel == Unwrap(m.a)
           IN  /\ registration_required_channels' =
                     IF channel \notin DOMAIN chanmap /\ Contains(config.channels, channel)
                       THEN Append(registration_required_channels, channel)
                       ELSE registration_required_channels
               /\ SendNothing(Ok(<<Single(m)>>))
               /\ UNCHANGED <<config, nickVars, chanmap, capVars, isupport>>

\* m.a is the new username and hostname
HandleCHGHOST(m) ==
    IF ~IsSome(m.src)
      THEN NoEffect(Err)
      ELSE LET old_user == UserFromPrefix(Unwrap(m.src))
           IN  /\ chanmap' = UpdateAll(old_user,
                                        <<"hostname", m.a>>)
               /\ SendNothing(Ok(<<Broadcast(m, "ChangeHost",
                                              user_channels(old_user.nickname))>>))
               /\ UNCHANGED resolved_nick
               /\ UnchangedByChan

\* MODE on a channel: m.a is the target, m.b the operation, m.c the mode
\* letter, m.d the optional nickname argument
HandleMODE(m) ==
    /\ chanmap' =
          IF is_channel(m.a) /\ m.a \in DOMAIN chanmap /\ IsSome(m.d)
            THEN [chanmap EXCEPT
                    ![m.a].users = UsersUpdate(@, UserFromPrefix(Unwrap(m.d)),
                                     <<"access", m.b, m.c>>)]
            ELSE chanmap
    /\ SendNothing(Ok(<<Single(m)>>))
    /\ UNCHANGED resolved_nick
    /\ UnchangedByChan

RECURSIVE InsertAll(_, _)
InsertAll(set, nicks) ==
    IF nicks = <<>> THEN set
    ELSE InsertAll(UsersInsert(set, UserFromPrefix(Head(nicks))), Tail(nicks))

\* m.a is the channel (args[2]), m.b the listed nicknames (args[3])
HandleNAMREPLY(m) ==
    /\ chanmap' =
          IF m.a \in DOMAIN chanmap
            THEN [chanmap EXCEPT ![m.a].users = InsertAll(@, m.b)]
            ELSE chanmap
    /\ SendNothing(IF m.a \in DOMAIN chanmap /\ ~chanmap[m.a].names_init
                     THEN Ok(<<>>) ELSE Ok(<<Single(m)>>))
    /\ UNCHANGED resolved_nick
    /\ UnchangedByChan

\* m.a is the target (args[1])
HandleENDOFNAMES(m) ==
    LET first == is_channel(m.a) /\ m.a \in DOMAIN chanmap /\ ~chanmap[m.a].names_init
    IN  /\ chanmap' = IF first THEN [chanmap EXCEPT ![m.a].names_init = TRUE] ELSE chanmap
        /\ SendNothing(IF first THEN Ok(<<>>) ELSE Ok(<<Single(m)>>))
        /\ UNCHANGED resolved_nick
        /\ UnchangedByChan

\* m.a is the target (args[1]), m.b the nickname (args[5]), m.c the flags (args[6])
HandleWHOREPLY(m) ==
    LET tracked == is_channel(m.a) /\ m.a \in DOMAIN chanmap
        updated == update_user_away(chanmap[m.a], m.b, m.c)
        who == IF updated.last_who = None \/ IsRequested(updated.last_who, None)
                 THEN Receiving(None) ELSE updated.last_who
    IN  /\ chanmap' = IF tracked THEN [chanmap EXCEPT ![m.a] = [updated EXCEPT !.last_who = who]]
                                  ELSE chanmap
        /\ SendNothing(IF tracked /\ IsSome(who) /\ Unwrap(who).state = "Receiving"
                         THEN Ok(<<>>) ELSE Ok(<<Single(m)>>))
        /\ UNCHANGED resolved_nick
        /\ UnchangedByChan

\* m.a is the token (args[1]), m.b the target (args[2]), m.c the nickname
\* (args[3]), m.d the flags (args[4]), m.e the optional account name (args[5])
HandleWHOSPCRPL(m) ==
    LET tracked == is_channel(m.b) /\ m.b \in DOMAIN chanmap
        away == update_user_away(chanmap[m.b], m.c, m.d)
        updated == IF supports_account_notify /\ IsSome(m.e)
                     THEN update_user_accountname(away, m.c, Unwrap(m.e)) ELSE away
        who == IF IsRequested(updated.last_who, Some(m.a))
                 THEN Receiving(Some(m.a)) ELSE updated.last_who
    IN  /\ chanmap' = IF tracked THEN [chanmap EXCEPT ![m.b] = [updated EXCEPT !.last_who = who]]
                                  ELSE chanmap
        /\ SendNothing(IF tracked /\ IsSome(who) /\ Unwrap(who).state = "Receiving"
                         THEN Ok(<<>>) ELSE Ok(<<Single(m)>>))
        /\ UNCHANGED resolved_nick
        /\ UnchangedByChan

\* m.a is the target (args[1])
HandleENDOFWHO(m) ==
    LET done == /\ is_channel(m.a) /\ m.a \in DOMAIN chanmap
                /\ IsSome(chanmap[m.a].last_who)
                /\ Unwrap(chanmap[m.a].last_who).state = "Receiving"
    IN  /\ chanmap' = IF done THEN [chanmap EXCEPT ![m.a].last_who = Done(InstantNow)]
                                ELSE chanmap
        /\ SendNothing(IF done THEN Ok(<<>>) ELSE Ok(<<Single(m)>>))
        /\ UNCHANGED resolved_nick
        /\ UnchangedByChan

\* RPL_ISUPPORT: m.a lists the parsed operations of the arguments after the
\* first: Add(parameter) or Remove(kind) of a known kind, or an argument that
\* is ignored (unknown kind, parse failure). Adding MONITOR sends the MONITOR +
\* messages with `?`; `free` counts the free slots of the sink.
RECURSIVE IsupportRun(_, _, _, _)
IsupportRun(table, ops, free, order) ==
    IF ops = <<>>
      THEN [sent |-> <<>>, ok |-> TRUE, table |-> table]
      ELSE LET o == Head(ops)
           IN  IF o.op = "Add"
                 THEN LET added == MapInsert(table, o.kind, o.value)
                          msgs == IF o.kind = "MONITOR"
                                    THEN group_monitors(config.monitor, o.value,
                                                        StrLen(Range(config.monitor)), order)
                                    ELSE <<>>
                      IN  IF Len(msgs) > free
                            THEN [sent |-> Take(msgs, free), ok |-> FALSE, table |-> added]
                            ELSE LET r == IsupportRun(added, Tail(ops), free - Len(msgs), order)
                                 IN  [r EXCEPT !.sent = msgs \o @]
                 ELSE IF o.op = "Remove"
                        THEN IsupportRun(MapRemove(table, o.kind), Tail(ops), free, order)
                        ELSE IsupportRun(table, Tail(ops), free, order)

\* the target_limit of the MONITOR parameter the message adds, if any
MonitorLimit(ops) ==
    LET adds == SelectSeq(ops, LAMBDA o : o.op = "Add" /\ o.kind = "MONITOR")
    IN  IF adds = <<>> THEN Some(0) ELSE adds[1].value

\* the RPL_ISUPPORT arm without the Remove operation
HandleISUPPORTNoRemove(m) ==
    /\ \E order \in MonitorOrders(config.monitor, MonitorLimit(m.a),
                                  StrLen(Range(config.monitor))) :
          LET r == IsupportRun(isupport, SelectSeq(m.a, LAMBDA o : o.op # "Remove"),
                               handle, order)
          IN  /\ isupport' = r.table
              /\ sent' = r.sent
              /\ handle' = handle - Len(r.sent)
              /\ hret' = IF r.ok THEN Ok(<<>>) ELSE Err
    /\ UNCHANGED <<config, nickVars, chanmap, capVars, registration_required_channels>>

HandleISUPPORT(m) ==
    /\ \E order \in MonitorOrders(config.monitor, MonitorLimit(m.a),
                                  StrLen(Range(config.monitor))) :
          LET r == IsupportRun(isupport, m.a, handle, order)
          IN  /\ isupport' = r.table
              /\ sent' = r.sent
              /\ handle' = handle - Len(r.sent)
              /\ hret' = IF r.ok THEN Ok(<<>>) ELSE Err
    /\ UNCHANGED <<config, nickVars, chanmap, capVars, registration_required_channels>>

\* ---------------------------------------------------------------- PRIVMSG, NOTICE
\* HighlightBlackout::allow_highlights with every state allowing
allow_highlightsAlways(blackout) == TRUE

\* HighlightBlackout::allow_highlights
allow_highlights(blackout) == blackout.state = "Receiving"

\* the CTCP queries that are answered
CtcpAnswered == {"ClientInfo", "Ping", "Source", "Version"}

\* PRIVMSG and NOTICE: m.a is the target and m.b the text, a record of what the
\* decoders make of it: dcc is what dcc::decode returns ("None", "Send" or
\* "Unsupported"), query the command of a CTCP query that is not an ACTION,
\* references whether the text mentions our nickname
HandlePRIVMSG(m, context) ==
    IF ~IsSome(m.src) THEN NoEffect(Ok(<<Single(m)>>))
    ELSE LET user == UserFromPrefix(Unwrap(m.src))
             text == m.b
         IN  IF text.dcc = "Send"
               THEN NoEffect(Ok(<<Event("FileTransferRequest", m, None, None)>>))
             ELSE IF text.dcc = "Unsupported" THEN NoEffect(Err)
             ELSE IF user.nickname # nickname /\ IsSome(text.query)
               THEN IF m.cmd = "PRIVMSG" /\ Unwrap(text.query) \in CtcpAnswered
                      THEN LET msgs == <<Out("NOTICE", <<user.nickname, Unwrap(text.query)>>,
                                             <<>>)>>
                           IN  /\ sent' = Accepted(msgs)
                               /\ handle' = handle - Len(sent')
                               /\ hret' = IF AllSent(msgs) THEN Ok(<<>>) ELSE Err
                               /\ UNCHANGED <<config, nickVars, chanmap, capVars,
                                              registration_required_channels, isupport>>
                      ELSE NoEffect(Ok(<<>>))
             ELSE IF text.references
               THEN NoEffect(Ok(<<Event("Highlight", m, None,
                                        Some(allow_highlights(highlight_blackout)))>>))
             ELSE IF user.nickname = nickname /\ IsSome(context) THEN NoEffect(Ok(<<>>))
             ELSE IF m.a = nickname
               THEN NoEffect(Ok(<<Event("DirectMessage", m, None, None)>>))
             ELSE NoEffect(Ok(<<Single(m)>>))

\* ---------------------------------------------------------------- Client::handle
\* the arms of the match after the BATCH and batch-tag arms, in source order
Dispatch(m, context) ==
    IF is_whois(context)
      THEN NoEffect(Ok(<<WithTarget(m, Unwrap(context).buffer)>>))
    ELSE IF IsNumericOrUnknown(m.cmd) /\ IsSome(reroute_responses_to)
      THEN NoEffect(Ok(<<WithTarget(m, Unwrap(reroute_responses_to))>>))
    ELSE CASE m.cmd = "CAP LS" -> HandleCapLS(m)
           [] m.cmd = "CAP ACK" -> HandleCapACK(m)
           [] m.cmd = "CAP NAK" -> HandleCapNAK(m)
           [] m.cmd = "CAP NEW" -> HandleCapNEW(m)
           [] m.cmd = "CAP DEL" -> HandleCapDEL(m)
           [] m.cmd = "AUTHENTICATE" /\ m.a = "+" -> HandleAUTHENTICATE(m)
           [] m.cmd = "RPL_LOGGEDIN" -> HandleLOGGEDIN(m)
           [] m.cmd = "RPL_LOGGEDOUT" -> HandleLOGGEDOUT(m)
           [] m.cmd \in {"PRIVMSG", "NOTICE"} -> HandlePRIVMSG(m, context)
           [] m.cmd = "NICK" -> HandleNICK(m)
           [] m.cmd \in {"ERR_NICKNAMEINUSE", "ERR_ERRONEUSNICKNAME"}
                /\ NickUnresolved -> HandleNICKINUSE(m)
           [] m.cmd = "RPL_WELCOME" -> HandleWELCOME(m)
           [] m.cmd = "QUIT" -> HandleQUIT(m)
           [] m.cmd = "PART" -> HandlePART(m)
           [] m.cmd = "JOIN" -> HandleJOIN(m)
           [] m.cmd = "KICK" -> HandleKICK(m)
           [] m.cmd = "AWAY" -> HandleAWAY(m)
           [] m.cmd = "ACCOUNT" -> HandleACCOUNT(m)
           [] m.cmd = "ERR_NOCHANMODES" -> HandleNOCHANMODES(m)
           [] m.cmd = "RPL_TOPIC" -> HandleRPLTOPIC(m)
           [] m.cmd = "RPL_TOPICWHOTIME" -> HandleRPLTOPICWHOTIME(m)
           [] m.cmd = "CHGHOST" -> HandleCHGHOST(m)
           [] m.cmd = "MODE" -> HandleMODE(m)
           [] m.cmd = "RPL_NAMREPLY" -> HandleNAMREPLY(m)
           [] m.cmd = "RPL_ENDOFNAMES" -> HandleENDOFNAMES(m)
           [] m.cmd = "RPL_WHOREPLY" -> HandleWHOREPLY(m)
           [] m.cmd = "RPL_WHOSPCRPL" -> HandleWHOSPCRPL(m)
           [] m.cmd = "RPL_ENDOFWHO" -> HandleENDOFWHO(m)
           [] m.cmd = "RPL_ISUPPORT" -> HandleISUPPORT(m)
           [] m.cmd = "TAGMSG" -> NoEffect(Ok(<<>>))
           [] OTHER -> NoEffect(Ok(<<Single(m)>>))

\* ---------------------------------------------------------------- history for the properties
\* hist.tree remembers, for every batch reference opened since the batch table
\* was last empty, the batch tag its BATCH + carried and whether it is open.
RECURSIVE IsAncestor(_, _, _, _)
IsAncestor(tree, anc, ref, fuel) ==
    /\ fuel > 0
    /\ ref \in DOMAIN tree
    /\ IsSome(tree[ref].parent)
    /\ \/ Unwrap(tree[ref].parent) = anc
       \/ IsAncestor(tree, anc, Unwrap(tree[ref].parent), fuel - 1)

InSubtree(tree, root, ref) == ref = root \/ IsAncestor(tree, root, ref, MaxRefs + 1)

SameRoot(tree, x, y) ==
    \E r \in DOMAIN tree : InSubtree(tree, r, x) /\ InSubtree(tree, r, y)

UsersOf(map) == [c \in DOMAIN map |-> map[c].users]

NicksIn(map) == {u.nickname : u \in UNION {map[c].users : c \in DOMAIN map}}

InitHist ==
    [who |-> EmptyMap,
     pending |-> FALSE,
     tree |-> EmptyMap,
     arr |-> 0,
     tag |-> EmptyMap,
     wf |-> TRUE,
     inter |-> FALSE,
     close |-> None,
     open |-> {},
     held |-> {},
     matched |-> EmptyMap,
     seen |-> EmptyMap,
     issued |-> 0,
     joined |-> {},
     snap |-> None,
     rt |-> None,
     isnap |-> None,
     irt |-> None,
     nick0 |-> <<None, None>>,
     inuse |-> 0,
     advertised |-> {},
     acked |-> {},
     route |-> None]

\* the batch bookkeeping after message m
BatchHist(m) ==
    LET h == hist
        tagged == IsSome(m.batch)
        t == Unwrap(m.batch)
        opening == m.cmd = "BATCH" /\ m.a = "+"
        closing == m.cmd = "BATCH" /\ m.a = "-" /\ m.b \in DOMAIN batches
        wf1 == IF opening
                 THEN /\ h.wf
                      /\ m.b \notin DOMAIN h.tree
                      /\ tagged => (t \in DOMAIN batches /\ t # m.b)
               ELSE IF closing
                 THEN /\ h.wf
                      /\ m.batch = h.tree[m.b].parent
                      /\ \A c \in DOMAIN h.tree :
                            ~(h.tree[c].open /\ h.tree[c].parent = Some(m.b))
               ELSE IF m.cmd # "BATCH" /\ tagged
                 THEN h.wf /\ t \in DOMAIN batches
               ELSE h.wf
        tree1 == IF opening THEN MapInsert(h.tree, m.b, [parent |-> m.batch, open |-> TRUE])
                 ELSE IF closing THEN [h.tree EXCEPT ![m.b].open = FALSE]
                 ELSE h.tree
        held1 == /\ m.cmd # "BATCH" /\ tagged /\ t \in DOMAIN batches
                 /\ hret'.ok /\ hret'.events # <<>>
        tag1 == IF held1 THEN MapInsert(h.tag, m.id, t) ELSE h.tag
        inter1 == \/ h.inter
                  \/ /\ held1
                     /\ \E c \in DOMAIN h.tree \ {t} :
                          /\ h.tree[c].open
                          /\ SameRoot(h.tree, c, t)
                          /\ ~IsAncestor(h.tree, c, t, MaxRefs + 1)
        arr1 == IF m.id > h.arr THEN m.id ELSE h.arr
        close1 == IF closing /\ ~tagged /\ h.tree[m.b].parent = None
                    THEN Some([ref |-> m.b,
                               tag |-> h.tag,
                               wf |-> wf1,
                               inter |-> h.inter,
                               expected |-> {id \in DOMAIN h.tag :
                                               InSubtree(h.tree, m.b, h.tag[id])}])
                    ELSE None
        empty == batches' = EmptyMap
    IN  [tree |-> IF empty THEN EmptyMap ELSE tree1,
         arr |-> IF empty THEN 0 ELSE arr1,
         tag |-> IF empty THEN EmptyMap ELSE tag1,
         wf |-> IF empty THEN TRUE ELSE wf1,
         inter |-> IF empty THEN FALSE ELSE inter1,
         close |-> close1,
         open |-> DOMAIN batches,
         held |-> DOMAIN h.tag]

\* how often each label gave its context to an inbound message
LabelHist(m) ==
    IF LabelMatches(m)
      THEN MapInsert(hist.matched, Unwrap(m.label),
                     IF Unwrap(m.label) \in DOMAIN hist.matched
                       THEN Min(hist.matched[Unwrap(m.label)] + 1, 2) ELSE 1)
      ELSE hist.matched

\* how often each label was carried by an inbound message
SeenHist(m) ==
    IF IsSome(m.label)
      THEN MapInsert(hist.seen, Unwrap(m.label),
                     IF Unwrap(m.label) \in DOMAIN hist.seen
                       THEN Min(hist.seen[Unwrap(m.label)] + 1, 2) ELSE 1)
      ELSE hist.seen

\* the channels whose latest self-JOIN, self-PART or KICK of ourself is the JOIN
JoinedHist(m) ==
    IF m.cmd = "JOIN" /\ m.src = Some(nickname) THEN hist.joined \cup {m.a}
    ELSE IF m.cmd = "PART" /\ m.src = Some(nickname) THEN hist.joined \ {m.a}
    ELSE IF m.cmd = "KICK" /\ m.b = nickname THEN hist.joined \ {m.a}
    ELSE hist.joined

\* snap: the user sets before a NICK a -> b just processed; rt: the user sets
\* before the pair when the message after it is NICK b -> a
SnapHist(m) ==
    IF m.cmd = "NICK" /\ IsSome(m.src)
      THEN Some([users |-> UsersOf(chanmap),
                 free |-> m.a \notin NicksIn(chanmap),
                 from |-> Unwrap(m.src),
                 to |-> m.a])
      ELSE None

RoundTripHist(m) ==
    IF /\ m.cmd = "NICK" /\ IsSome(m.src) /\ IsSome(hist.snap)
       /\ Unwrap(hist.snap).from = m.a /\ Unwrap(hist.snap).to = Unwrap(m.src)
      THEN Some([users |-> Unwrap(hist.snap).users, free |-> Unwrap(hist.snap).free])
      ELSE None

\* m is an RPL_ISUPPORT with the single argument of operation op, handled by
\* the RPL_ISUPPORT arm
SingleIsupport(m, op) ==
    /\ m.cmd = "RPL_ISUPPORT" /\ Len(m.a) = 1 /\ m.a[1].op = op
    /\ ~IsSome(reroute_responses_to)
    /\ ~is_whois(ResolveContext(m))

\* isnap: the table before an RPL_ISUPPORT that adds one parameter; irt: the
\* table before the pair when the message after it removes that kind
IsupportSnapHist(m) ==
    IF SingleIsupport(m, "Add")
      THEN Some([kind |-> m.a[1].kind, table |-> isupport])
      ELSE None

IsupportRoundTripHist(m) ==
    IF /\ SingleIsupport(m, "Remove") /\ IsSome(hist.isnap)
       /\ Unwrap(hist.isnap).kind = m.a[1].kind
      THEN Some([table |-> Unwrap(hist.isnap).table,
                 fresh |-> m.a[1].kind \notin DOMAIN Unwrap(hist.isnap).table])
      ELSE None

\* the number of nickname-in-use numerics taken by their arm so far
InUseHist(m) ==
    IF m.cmd \in {"ERR_NICKNAMEINUSE", "ERR_ERRONEUSNICKNAME"} /\ ~IsSome(resolved_nick)
      THEN hist.inuse + 1
      ELSE hist.inuse

\* whether an AUTHENTICATE <mechanism> went out that no AUTHENTICATE
\* <parameter> has followed yet
IsMechanism(o) == o.command = "AUTHENTICATE" /\ o.items[1] \in {<<"PLAIN">>, <<"EXTERNAL">>}
IsParameter(o) == o.command = "AUTHENTICATE" /\ ~(o.items[1] \in {<<"PLAIN">>, <<"EXTERNAL">>})

PendingHist(m) ==
    IF \E i \in DOMAIN sent' : IsMechanism(sent'[i]) THEN TRUE
    ELSE IF \E i \in DOMAIN sent' : IsParameter(sent'[i]) THEN FALSE
    ELSE hist.pending

\* the name of an advertised capability: the token up to its value
CapName(token) == IF token = "sasl=PLAIN" THEN "sasl" ELSE token

\* of the capabilities the client asks for in this model, those advertised by
\* CAP LS and CAP NEW and not removed by a later CAP DEL
AdvertisedHist(m) ==
    IF m.cmd \in {"CAP LS", "CAP NEW", "CAP DEL"} /\ IsSome(m.a)
      THEN LET caps == IF IsSome(m.b) THEN Unwrap(m.b) ELSE Unwrap(m.a)
               names == {CapName(caps[i]) : i \in DOMAIN caps} \cap
                            {"sasl", "account-notify", "extended-join",
                             "labeled-response", "echo-message"}
           IN  IF m.cmd = "CAP DEL" THEN hist.advertised \ names
                                    ELSE hist.advertised \cup names
      ELSE hist.advertised

\* of labeled-response and draft/read-marker, those some CAP ACK named and no
\* later CAP DEL did
AckedHist(m) ==
    IF m.cmd \in {"CAP ACK", "CAP DEL"} /\ (IsSome(m.a) \/ IsSome(m.b))
      THEN LET caps == IF IsSome(m.b) THEN Unwrap(m.b) ELSE Unwrap(m.a)
               named == Range(caps) \cap {"labeled-response", "draft/read-marker"}
           IN  IF m.cmd = "CAP ACK" THEN hist.acked \cup named ELSE hist.acked \ named
      ELSE hist.acked

\* the buffer of the last WHO, WHOIS, WHOWAS or user MODE sent and not yet
\* answered by a terminating numeric
RouteHist(m) == IF m.cmd \in StopNumerics THEN None ELSE hist.route

\* the channels the WHO messages among msgs ask about
WhoAsked(msgs) == {msgs[i].items[1] : i \in {j \in DOMAIN msgs : msgs[j].command = "WHO"}}

\* m is a reply to the WHO whose token was stored: RPL_WHOREPLY when there was
\* none, else an RPL_WHOSPCRPL echoing it
AnswersWho(m, channel, token) ==
    IF IsSome(token)
      THEN m.cmd = "RPL_WHOSPCRPL" /\ m.b = channel /\ m.a = Unwrap(token)
      ELSE m.cmd = "RPL_WHOREPLY" /\ m.a = channel

\* hist.who: for every joined channel the client itself sent a WHO for, not yet
\* closed by RPL_ENDOFWHO, the token of the WHO and whether a reply has arrived
WhoHist(m) ==
    LET asked == WhoAsked(sent')
        open == {c \in DOMAIN hist.who : ~(m.cmd = "RPL_ENDOFWHO" /\ m.a = c)}
    IN  [c \in (asked \cup open) \cap DOMAIN chanmap' |->
            IF c \in asked
              THEN [token |-> chanmap'[c].last_who[1].token, replied |-> FALSE]
              ELSE [hist.who[c] EXCEPT
                      !.replied = @ \/ AnswersWho(m, c, hist.who[c].token)]]

HistAfter(m) ==
    BatchHist(m) @@ [who |-> WhoHist(m),
                     pending |-> PendingHist(m),
                     matched |-> LabelHist(m),
                     seen |-> SeenHist(m),
                     issued |-> hist.issued,
                     joined |-> JoinedHist(m),
                     snap |-> SnapHist(m),
                     rt |-> RoundTripHist(m),
                     isnap |-> IsupportSnapHist(m),
                     irt |-> IsupportRoundTripHist(m),
                     nick0 |-> <<alt_nick, resolved_nick>>,
                     inuse |-> InUseHist(m),
                     advertised |-> AdvertisedHist(m),
                     acked |-> AckedHist(m),
                     route |-> RouteHist(m)]

\* ---------------------------------------------------------------- Client::receive
receive(m) ==
    LET context == ResolveContext(m)
    IN  /\ labels' = LabelsAfterLookup(m)
        /\ IF m.cmd = "BATCH"
              THEN /\ HandleBATCH(m, context)
                   /\ ret' = hret'
              ELSE /\ Dispatch(m, context)
                   /\ IF IsSome(m.batch) /\ hret'.ok /\ Unwrap(m.batch) \in DOMAIN batches
                         THEN /\ batches' = [batches EXCEPT
                                               ![Unwrap(m.batch)].events = @ \o hret'.events]
                              /\ ret' = Ok(<<>>)
                         ELSE /\ batches' = batches
                              /\ ret' = hret'
        /\ reroute_responses_to' =
              IF stop_reroute(m.cmd) /\ ret'.ok THEN None ELSE reroute_responses_to
        /\ input' = [op |-> "receive", message |-> m]
        /\ hist' = HistAfter(m)
        /\ UnchangedByHandle

\* ---------------------------------------------------------------- Client::send
\* Posix::now().as_nanos(): a reading of the nanosecond clock
PosixNow == clock

generate_label == PosixNow

\* Client::join: the JOINs of the user; a refused push is logged and the next
\* message is tried
join(chans) ==
    LET len == StrLen(Range(chans))
    IN  \E o1 \in KeylessOrders(chans, EmptyMap, len),
           o2 \in KeyedOrders(chans, EmptyMap, len) :
            /\ sent' = Accepted(group_joins(chans, EmptyMap, len, o1, o2))
            /\ handle' = handle - Len(sent')
            /\ ret' = Ok(<<>>)
            /\ input' = [op |-> "join"]
            /\ UNCHANGED <<config, nickVars, chanmap, viewVars, labels, batches,
                           reroute_responses_to, capVars, registration_required_channels,
                           isupport, clock, hret, hist, shVars>>

\* start_reroute
start_reroute(command, target) ==
    IF command = "MODE" THEN ~is_channel(target)
    ELSE command \in {"WHO", "WHOIS", "WHOWAS"}

\* message.tags = vec![Tag { key: "label", value: Some(label) }]
Labelled(message, label) ==
    [label |-> label,
     command |-> message.command,
     items |-> message.items,
     keys |-> message.keys]

send(buffer, command, target) ==
    /\ IF supports_labels
          THEN labels' = MapInsert(labels, generate_label, NewContext(command, buffer))
          ELSE labels' = labels
    /\ hist' = [hist EXCEPT
                  !.issued = IF supports_labels THEN @ + 1 ELSE @,
                  !.route = IF \/ command \in {"WHO", "WHOIS", "WHOWAS"}
                               \/ command = "MODE" /\ ~is_channel(target)
                              THEN Some(buffer) ELSE @]
    /\ clock' = clock + 1
    /\ reroute_responses_to' = IF start_reroute(command, target) THEN Some(buffer) ELSE None
    /\ sent' = Accepted(<<IF supports_labels
                             THEN Labelled(Out(command, <<target>>, <<>>), generate_label)
                             ELSE Out(command, <<target>>, <<>>)>>)
    /\ handle' = handle - Len(sent')
    /\ ret' = Ok(<<>>)
    /\ input' = [buffer |-> buffer, command |-> command, op |-> "send"]
    /\ UNCHANGED <<config, nickVars, chanmap, viewVars, batches, capVars,
                   registration_required_channels, isupport, hret, shVars>>

\* ---------------------------------------------------------------- Client::send_markread
\* a client that marks read without asking whether the server supports it
MarkreadMessagesAlways(target, read_marker) ==
    <<Out("MARKREAD", <<target, <<"timestamp=", read_marker>>>>, <<>>)>>

MarkreadMessages(target, read_marker) ==
    IF supports_read_marker
      THEN <<Out("MARKREAD", <<target, <<"timestamp=", read_marker>>>>, <<>>)>>
      ELSE <<>>

send_markread(target, read_marker) ==
    /\ sent' = Accepted(MarkreadMessages(target, read_marker))
    /\ handle' = handle - Len(sent')
    /\ ret' = IF AllSent(MarkreadMessages(target, read_marker)) THEN Ok(<<>>) ELSE Err
    /\ input' = [op |-> "send_markread"]
    /\ UNCHANGED <<config, nickVars, chanmap, viewVars, labels, batches,
                   reroute_responses_to, capVars, registration_required_channels,
                   isupport, clock, hret, hist, shVars>>

\* ---------------------------------------------------------------- Client::sync
\* Client::compare_channels
compare_channels(a, b) ==
    IF a = <<>> \/ b = <<>>
      THEN StrCmp(a, b)
      ELSE LET a_chantype == a[1]
               b_chantype == b[1]
               ord == StrCmp(trim_start_matches(a, a_chantype),
                             trim_start_matches(b, b_chantype))
           IN  IF a_chantype \in chantypes /\ b_chantype \in chantypes /\ ord # "Equal"
                 THEN ord
                 ELSE StrCmp(a, b)

\* the keys of a BTreeMap in iteration order: ascending for str::cmp
KeysInOrder(map) ==
    CHOOSE f \in Orderings(DOMAIN map) :
        \A i, j \in DOMAIN f : i < j => StrCmp(f[i], f[j]) = "Less"

\* the pairs <<a, b>> of keys for which compare_channels(a, b) is Less
ChannelLess(keys) ==
    {p \in Range(keys) \X Range(keys) : compare_channels(p[1], p[2]) = "Less"}

\* slice::sort_by on a short slice: a stable insertion sort; x is moved left
\* past every element it compares Less to, until one it does not
RECURSIVE InsertSorted(_, _, _)
InsertSorted(sorted, x, less) ==
    IF sorted # <<>> /\ <<x, sorted[Len(sorted)]>> \in less
      THEN Append(InsertSorted(SubSeq(sorted, 1, Len(sorted) - 1), x, less),
                  sorted[Len(sorted)])
      ELSE Append(sorted, x)

RECURSIVE SortedFrom(_, _, _)
SortedFrom(sorted, rest, less) ==
    IF rest = <<>> THEN sorted
    ELSE SortedFrom(InsertSorted(sorted, Head(rest), less), Tail(rest), less)

sorted_by(list, less) == SortedFrom(<<>>, list, less)

\* the keys of chanmap without the sort by compare_channels
KeysUnsorted(map) == KeysInOrder(map)
KeysSorted(map) == sorted_by(KeysInOrder(map), ChannelLess(KeysInOrder(map)))

\* User's Ord
UserCmp(u, v) == StrCmp(u.nickname, v.nickname)

\* the pairs <<u, v>> of users for which u < v
UserLess(list) ==
    {p \in Range(list) \X Range(list) : UserCmp(p[1], p[2]) = "Less"}

\* iter().sorted() on the members in the order the HashSet yields them
SortedUsers(list) == sorted_by(list, UserLess(list))

\* the orders in which the HashSets of the channels may yield their members
IterOrders(map) ==
    {f \in [DOMAIN map -> UNION {Orderings(map[c].users) : c \in DOMAIN map}] :
        \A c \in DOMAIN map : f[c] \in Orderings(map[c].users)}

\* the users view not rebuilt from chanmap: entries are only added or replaced
UsersKept(map, iter) ==
    [c \in DOMAIN users \cup DOMAIN map |->
        IF c \in DOMAIN map THEN SortedUsers(iter[c]) ELSE users[c]]
UsersRebuilt(map, iter) == [c \in DOMAIN map |-> SortedUsers(iter[c])]

sync ==
    \E iter \in IterOrders(chanmap) :
        /\ channels' = KeysSorted(chanmap)
        /\ users' = UsersRebuilt(chanmap, iter)
        /\ input' = [op |-> "sync", had |-> {c \in DOMAIN users : users[c] # <<>>}]
        /\ UNCHANGED <<config, handle, sent, nickVars, chanmap, labels, batches,
                       reroute_responses_to, capVars, registration_required_channels,
                       isupport, clock, hret, ret, hist, shVars>>

\* ---------------------------------------------------------------- Client::tick
\* Duration::from_secs(5); the time is counted in seconds
HIGHLIGHT_BLACKOUT_INTERVAL == 5

\* Instant::duration_since: zero when `earlier` is later than self
DurationSince(now, earlier) == IF now >= earlier THEN now - earlier ELSE 0

\* a client that repeats the WHO of every channel that has a WHO state
WhoDueAlways(last_who, now) == IsSome(last_who)

\* request is Some(Poll) or Some(Retry)
WhoDue(last_who, now) ==
    /\ IsSome(last_who)
    /\ CASE Unwrap(last_who).state = "Done" ->
              /\ ~supports_away_notify
              /\ config.who_poll_enabled
              /\ DurationSince(now, Unwrap(last_who).instant) >= config.who_poll_interval
         [] Unwrap(last_who).state = "Requested" ->
              DurationSince(now, Unwrap(last_who).instant) >= config.who_retry_interval
         [] OTHER -> FALSE

\* the loop over chanmap.iter_mut() from the i-th key on, with `free` slots left
\* on the sink: a refused push returns the error at once
RECURSIVE TickFrom(_, _, _, _, _)
TickFrom(keys, i, chans, free, now) ==
    IF i > Len(keys) THEN [sent |-> <<>>, ok |-> TRUE, chans |-> chans]
    ELSE IF ~WhoDue(chans[keys[i]].last_who, now)
      THEN TickFrom(keys, i + 1, chans, free, now)
    ELSE IF free = 0 THEN [sent |-> <<>>, ok |-> FALSE, chans |-> chans]
    ELSE LET rest == TickFrom(keys, i + 1,
                              [chans EXCEPT ![keys[i]].last_who = Requested(now, WhoToken)],
                              free - 1, now)
         IN  [rest EXCEPT !.sent = <<WhoMessage(keys[i])>> \o @]

\* tick(now): the caller passes the current time, never an earlier one
tick(now) ==
    LET run == TickFrom(KeysInOrder(chanmap), 1, chanmap, handle, now)
    IN  /\ now >= clock
        /\ clock' = now
        /\ highlight_blackout' =
              IF /\ highlight_blackout.state = "Blackout"
                 /\ DurationSince(now, highlight_blackout.instant)
                        >= HIGHLIGHT_BLACKOUT_INTERVAL
                THEN HighlightReceiving
                ELSE highlight_blackout
        /\ chanmap' = run.chans
        /\ sent' = run.sent
        /\ handle' = handle - Len(run.sent)
        /\ ret' = IF run.ok THEN Ok(<<>>) ELSE Err
        /\ input' = [op |-> "tick", now |-> now]
        /\ hist' = [hist EXCEPT
                      !.who = [c \in WhoAsked(run.sent) \cup DOMAIN hist.who |->
                                  IF c \in WhoAsked(run.sent)
                                    THEN [token |-> WhoToken, replied |-> FALSE]
                                    ELSE hist.who[c]]]
        /\ UNCHANGED <<config, nickVars, viewVars, labels, batches, reroute_responses_to,
                       capVars, registration_required_channels, isupport, hret,
                       shIn, shOut, Map, exited>>

\* ---------------------------------------------------------------- configurations
DefaultConfig ==
    [channels |-> <<>>,
     nickname |-> <<"m">>,
     password |-> FALSE,
     username |-> None,
     realname |-> None,
     sasl |-> None,
     who_poll_enabled |-> FALSE,
     alt_nicks |-> <<>>,
     nick_password |-> None,
     should_ghost |-> FALSE,
     ghost_sequence |-> <<"REGAIN">>,
     nick_identify_syntax |-> None,
     umodes |-> None,
     on_connect |-> <<>>,
     channel_keys |-> EmptyMap,
     monitor |-> <<>>,
     who_poll_interval |-> 2,
     who_retry_interval |-> 1]

\* the state after Client::new(cfg), before any shaper call
Constructed(cfg) ==
    /\ NewClient(cfg)
    /\ hist = InitHist
    /\ shIn = None
    /\ shOut = <<>>
    /\ Map = EmptyMap
    /\ exited = {}

\* ---------------------------------------------------------------- registration
SaslPlain == [kind |-> "Plain", password |-> "p", username |-> "u"]
SaslExternal == [kind |-> "External", password |-> "", username |-> ""]

RegConfigs == {[DefaultConfig EXCEPT !.sasl = s] : s \in {None, Some(SaslPlain), Some(SaslExternal)}}

CapLists == {<<"x">>, <<"batch">>, <<"sasl">>, <<"labeled-response">>}

InitReg == \E cfg \in RegConfigs : Constructed(cfg)

\* CAP * LS * :caps (more to come) and CAP * LS :caps (the last line)
ReceiveCapLS ==
    \E caps \in CapLists, more \in BOOLEAN :
        /\ Len(listed_caps) + Len(caps) <= MaxListed
        /\ receive(Plain("CAP LS", IF more THEN Some(<<"*">>) ELSE Some(caps),
                         IF more THEN Some(caps) ELSE None, None, None))

ReceiveCapACK == \E caps \in CapLists : receive(Plain("CAP ACK", Some(caps), None, None, None))

ReceiveCapNAK == \E caps \in CapLists : receive(Plain("CAP NAK", Some(caps), None, None, None))

ReceiveCapNEW ==
    \E caps \in CapLists :
        /\ Len(listed_caps) + Len(caps) <= MaxListed
        /\ receive(Plain("CAP NEW", Some(caps), None, None, None))

ReceiveCapDEL == \E caps \in CapLists : receive(Plain("CAP DEL", Some(caps), None, None, None))

ReceiveAUTHENTICATE == receive(Plain("AUTHENTICATE", "+", None, None, None))

NextReg ==
    \/ connect
    \/ ReceiveCapLS
    \/ ReceiveCapACK
    \/ ReceiveCapNAK
    \/ ReceiveCapNEW
    \/ ReceiveCapDEL
    \/ ReceiveAUTHENTICATE
    \/ Drain

SpecReg == InitReg /\ [][NextReg]_vars

\* C1: registration_step never decreases in the order Start < List < Req <
\* Sasl < End: no CAP LS, CAP ACK, CAP NAK, CAP NEW or AUTHENTICATE message
\* moves it to a smaller step than it already has
C1_NoMessageDecreasesStep ==
    [][input'.op = "receive" => registration_step' >= registration_step]_vars

\* ---------------------------------------------------------------- shaper calls
\* the items handed to the shaper and the byte lengths they may have; every
\* item alone fits the budget of each command
ItemNames == <<"i1", "i2", "i3", "i4", "i5">>
ItemLens == {100, 250, 400}
KeyNames == <<"k1", "k2", "k3", "k4", "k5">>
\* the key configured for the channel c
KeyFor(c) == KeyNames[CHOOSE i \in DOMAIN ItemNames : ItemNames[i] = c]
KeyLens == {100}

ItemLists == {Take(ItemNames, n) : n \in 0..MaxItems}

\* Each call of a shaper is a function of its arguments alone: the calls are
\* made one per behaviour, from the constructed client.
\* What the client state does while the shaper alone is exercised:
UnchangedByShaper ==
    UNCHANGED <<config, handle, sent, nickVars, chanmap, viewVars, labels, batches,
                reroute_responses_to, capVars, registration_required_channels,
                isupport, clock, hret, ret, hist, highlight_blackout, Map, exited>>

CallGroupCapabilityRequests ==
    \E list \in ItemLists :
      \E len \in [Range(list) -> ItemLens] :
        \E order \in CapOrders(list, len) :
            /\ shIn = None
            /\ shIn' = Some([list |-> list, len |-> len, fn |-> "group_capability_requests"])
            /\ shOut' = group_capability_requests(list, len, order)
            /\ input' = [op |-> "group_capability_requests"]
            /\ UnchangedByShaper

CallGroupJoins ==
    \E list \in ItemLists, keylen \in KeyLens :
      \E len \in [Range(list) -> ItemLens], keyed \in SUBSET Range(list) :
        LET keys == [c \in keyed |-> KeyFor(c)]
            lens == len @@ [k \in Range(KeyNames) |-> keylen]
        IN  \E o1 \in KeylessOrders(list, keys, lens), o2 \in KeyedOrders(list, keys, lens) :
                /\ shIn = None
                /\ shIn' = Some([keys |-> keys,
                                 list |-> list,
                                 len |-> lens,
                                 fn |-> "group_joins"])
                /\ shOut' = group_joins(list, keys, lens, o1, o2)
                /\ input' = [op |-> "group_joins"]
                /\ UnchangedByShaper

CallGroupMonitors ==
    \E list \in ItemLists, target_limit \in {None, Some(2)} :
      \E len \in [Range(list) -> ItemLens] :
        \E order \in MonitorOrders(list, target_limit, len) :
            /\ shIn = None
            /\ shIn' = Some([list |-> list, len |-> len, fn |-> "group_monitors"])
            /\ shOut' = group_monitors(list, target_limit, len, order)
            /\ input' = [op |-> "group_monitors"]
            /\ UnchangedByShaper

InitShaper == Constructed(DefaultConfig)

NextShaper ==
    \/ CallGroupCapabilityRequests
    \/ CallGroupJoins
    \/ CallGroupMonitors

SpecShaper == InitShaper /\ [][NextShaper]_vars

\* the bytes of the items of one list parameter, joined by one-byte separators
RECURSIVE SumLen(_, _)
SumLen(items, len) ==
    IF items = <<>> THEN 0 ELSE len[Head(items)] + SumLen(Tail(items), len)

JoinedLen(items, len) == IF items = <<>> THEN 0 ELSE SumLen(items, len) + Len(items) - 1

\* the bytes of a shaped message on the wire: the command words and CR LF, the
\* joined items, and for a keyed JOIN a space and the joined keys
WireLen(msg, len) ==
    (CASE msg.command = "CAP REQ" -> CAP_REQ_PREFIX
       [] msg.command = "JOIN" -> JOIN_PREFIX
       [] msg.command = "MONITOR +" -> MONITOR_PREFIX)
    + JoinedLen(msg.items, len)
    + (IF msg.keys = <<>> THEN 0 ELSE 1 + JoinedLen(msg.keys, len))

\* C2: for every input list whose items each fit the budget, every message of
\* group_capability_requests, group_joins and group_monitors is at most 512
\* bytes on the wire (command prefix + joined items + CR LF)
C2_MessagesFitByteLimit ==
    IsSome(shIn) =>
        \A k \in DOMAIN shOut : WireLen(shOut[k], Unwrap(shIn).len) <= BYTE_LIMIT

\* ---------------------------------------------------------------- batches
Refs == 1..MaxRefs
BatchTags == {None} \cup {Some(r) : r \in Refs}

\* The server's stream is followed up to and including its first departure
\* from the IRCv3 batch rules; it is followed again once no batch is open.
StreamIntact == hist.wf

\* BATCH +ref, with or without a batch tag
ReceiveBatchOpen ==
    \E ref \in Refs, tag \in BatchTags :
        /\ StreamIntact
        /\ receive(Msg("BATCH", "+", ref, None, None, None, None, None, tag, 0))

\* BATCH -ref, with or without a batch tag
ReceiveBatchClose ==
    \E ref \in Refs, tag \in BatchTags :
        /\ StreamIntact
        /\ receive(Msg("BATCH", "-", ref, None, None, None, None, None, tag, 0))

\* BATCH with an empty first parameter
ReceiveBatchMalformed ==
    \E tag \in BatchTags :
        /\ StreamIntact
        /\ receive(Msg("BATCH", "", 0, None, None, None, None, None, tag, 0))

\* a message that yields one event (WALLOPS), none (TAGMSG) or an error (a NICK
\* without source), with or without a batch tag
ReceiveInBatch ==
    \E cmd \in {"WALLOPS", "TAGMSG", "NICK"}, tag \in BatchTags :
        /\ StreamIntact
        /\ hist.arr < MaxArr
        /\ receive(Msg(cmd, <<"a">>, None, None, None, None, None, None, tag, hist.arr + 1))

InitBatch == Constructed(DefaultConfig)

NextBatch ==
    \/ ReceiveBatchOpen
    \/ ReceiveBatchClose
    \/ ReceiveBatchMalformed
    \/ ReceiveInBatch

SpecBatch == InitBatch /\ [][NextBatch]_vars

\* the arrival numbers of a list of events
Ids(events) == [i \in DOMAIN events |-> events[i].id]

\* the numbers of S in ascending order
AscendingIds(S) ==
    CHOOSE f \in Orderings(S) : \A i, j \in DOMAIN f : i < j => f[i] < f[j]

\* the last call closed a root batch of a stream that uses batches as IRCv3
\* prescribes: a reference is opened once, a nested batch is opened and closed
\* with the tag of its open parent and closed before it, and tags name open
\* batches
RootClosed == IsSome(hist.close) /\ Unwrap(hist.close).wf

C4_EventsOnlyAtRootClose ==
    input.op = "receive" =>
        LET m == input.message
            nested == IsSome(m.batch) /\ Unwrap(m.batch) \in hist.open
            own_close == m.cmd = "BATCH" /\ m.a = "-" /\ m.batch = Some(m.b)
        IN  /\ (nested /\ ~own_close) => ret.events = <<>>
            /\ (\E i \in DOMAIN ret.events : ret.events[i].id \in hist.held) =>
                  /\ m.cmd = "BATCH" /\ m.a = "-" /\ m.b \in hist.open
                  /\ ~(nested /\ ~own_close)

\* the BATCH -ref of a nested batch that holds an event was just processed
C4_Witness ==
    /\ input.op = "receive"
    /\ input.message.cmd = "BATCH" /\ input.message.a = "-"
    /\ IsSome(input.message.batch)
    /\ Unwrap(input.message.batch) \in DOMAIN batches
    /\ batches[Unwrap(input.message.batch)].events # <<>>
    /\ hist.wf
    /\ ret = Ok(<<>>)

\* ---------------------------------------------------------------- labelled responses
\* the labels a server line can carry: the readings of the clock so far may
\* have been issued, the others never were
LabelTags == {Some(l) : l \in 0..(MaxLabels - 1)}

\* the server acknowledges labeled-response
ReceiveLabelACK ==
    receive(Plain("CAP ACK", Some(<<"labeled-response">>), None, None, None))

\* the server withdraws labeled-response
ReceiveLabelDEL ==
    receive(Plain("CAP DEL", Some(<<"labeled-response">>), None, None, None))

\* the UI sends a WHOIS from buffer x or a PRIVMSG from buffer y
SendCommand ==
    \E from \in {<<"x", "WHOIS">>, <<"y", "PRIVMSG">>} :
        /\ clock < MaxLabels
        /\ send(from[1], from[2], <<"a">>)

\* a reply line with a label tag
ReceiveLabeled ==
    \E cmd \in {"RPL_WHOISUSER", "RPL_ENDOFWHOIS"}, label \in LabelTags :
        receive(Msg(cmd, <<"a">>, None, None, None, None, None, label, None, 0))

\* a reply line without a label tag
ReceiveUnlabeled ==
    receive(Msg("RPL_ENDOFWHOIS", <<"a">>, None, None, None, None, None, None, None, 0))

\* the reply is a batch: BATCH +1 with a label tag, later BATCH -1
ReceiveLabeledBatchOpen ==
    \E label \in LabelTags :
        /\ batches = EmptyMap
        /\ receive(Msg("BATCH", "+", 1, None, None, None, None, label, None, 0))

ReceiveLabeledBatchClose ==
    /\ batches # EmptyMap
    /\ receive(Msg("BATCH", "-", 1, None, None, None, None, None, None, 0))

InitLabel == Constructed(DefaultConfig)

NextLabel ==
    \/ ReceiveLabelACK
    \/ ReceiveLabelDEL
    \/ SendCommand
    \/ ReceiveLabeled
    \/ ReceiveUnlabeled
    \/ ReceiveLabeledBatchOpen
    \/ ReceiveLabeledBatchClose

SpecLabel == InitLabel /\ [][NextLabel]_vars

\* C5: a label stored by send is matched by at most one inbound message: once
\* a message carrying the label has taken its Context from the label table the
\* entry is gone and a later message with the same label gets no Context from
\* the table; two outstanding sends never share a label (every labelled send
\* has an entry of its own, outstanding or matched)
C5_LabelConsumedAtMostOnce ==
    /\ \A l \in DOMAIN hist.matched : hist.matched[l] <= 1
    /\ DOMAIN hist.matched \cap DOMAIN labels = {}
    /\ Cardinality(DOMAIN labels) + Cardinality(DOMAIN hist.matched) = hist.issued

\* a label was carried by two inbound messages and matched by the first, while
\* the label of another send is outstanding
C5_Witness ==
    /\ \E l \in DOMAIN hist.matched : hist.matched[l] = 1 /\ hist.seen[l] = 2
    /\ labels # EmptyMap
    /\ hist.issued = 2

\* ---------------------------------------------------------------- channel membership
Chans == {<<"#", "a">>, <<"#", "b">>}

\* our configured nickname and two other nicknames
Nicks == {<<"m">>, <<"a">>, <<"b">>}

ReceiveJOIN ==
    \E src \in Nicks, chan \in Chans :
        receive(Plain("JOIN", chan, None, None, Some(src)))

ReceivePART ==
    \E src \in Nicks, chan \in Chans :
        receive(Plain("PART", chan, None, None, Some(src)))

ReceiveKICK ==
    \E victim \in Nicks, chan \in Chans :
        receive(Plain("KICK", chan, victim, None, Some(<<"a">>)))

ReceiveQUIT ==
    \E src \in Nicks : receive(Plain("QUIT", None, None, None, Some(src)))

ReceiveNICK ==
    \E src \in Nicks, nick \in Nicks :
        receive(Plain("NICK", nick, None, None, Some(src)))

\* AWAY :gone of one of the others
ReceiveAWAY ==
    \E src \in Nicks \ {<<"m">>} :
        receive(Plain("AWAY", Some("gone"), None, None, Some(src)))

InitChan == Constructed(DefaultConfig)

NextChan ==
    \/ ReceiveJOIN
    \/ ReceivePART
    \/ ReceiveKICK
    \/ ReceiveQUIT
    \/ ReceiveNICK
    \/ ReceiveAWAY

SpecChan == InitChan /\ [][NextChan]_vars

\* C6: a channel is a key of chanmap if and only if, among the processed
\* self-JOIN, self-PART and KICK-of-self messages for it, the most recent one
\* is the JOIN; JOIN, PART, KICK, QUIT and NICK of other users never add or
\* remove a key
C6_KeysAreJoinedChannels == DOMAIN chanmap = hist.joined

\* another user was just kicked from a channel we are in, after we changed
\* our nickname, and the channel is still a key
C6_Witness ==
    /\ input.op = "receive"
    /\ input.message.cmd = "KICK"
    /\ input.message.b # nickname
    /\ input.message.a \in DOMAIN chanmap
    /\ IsSome(resolved_nick)
    /\ Cardinality(DOMAIN chanmap) = 1

\* C10 as claimed: NICK a -> b directly followed by NICK b -> a leaves every
\* channel's user set as it was before the two messages
C10_NickRoundTripRestores ==
    IsSome(hist.rt) => UsersOf(chanmap) = Unwrap(hist.rt).users

\* C10 as amended: the same, when no channel's user set contained the
\* nickname b before the two messages
C10_NickRoundTripRestoresFree ==
    (IsSome(hist.rt) /\ Unwrap(hist.rt).free) =>
        UsersOf(chanmap) = Unwrap(hist.rt).users

\* NICK a -> b and NICK b -> a were processed for a user who is away in some
\* channel, with b # a and b in no channel before
C10_Witness ==
    /\ IsSome(hist.rt)
    /\ Unwrap(hist.rt).free
    /\ input.message.src # Some(input.message.a)
    /\ \E c \in DOMAIN chanmap :
         \E u \in chanmap[c].users : u.nickname = input.message.a /\ u.away

\* ---------------------------------------------------------------- users of a channel
Room == <<"#", "a">>

Others == {<<"a">>, <<"b">>}

\* our own JOIN creates the channel (and empties it when it exists)
RecvSelfJoin == receive(Plain("JOIN", Room, None, None, Some(<<"m">>)))

RecvJoin ==
    \E src \in Others : receive(Plain("JOIN", Room, None, None, Some(src)))

RecvNames ==
    \E nicks \in {<<<<"a">>>>, <<<<"b">>, <<"a">>>>} :
        receive(Plain("RPL_NAMREPLY", Room, nicks, None, None))

RecvNick ==
    \E src \in Others, nick \in Others :
        receive(Plain("NICK", nick, None, None, Some(src)))

RecvAway ==
    \E src \in Others, away \in {None, Some("gone")} :
        receive(Plain("AWAY", away, None, None, Some(src)))

RecvAccount ==
    \E src \in Others, name \in {"*", "acc"} :
        receive(Plain("ACCOUNT", name, None, None, Some(src)))

RecvChghost ==
    \E src \in Others : receive(Plain("CHGHOST", "g", None, None, Some(src)))

RecvMode ==
    \E nick \in Others, op \in {"+", "-"} :
        receive(Msg("MODE", Room, op, "o", Some(nick), None, None, None, None, 0))

RecvWhoReply ==
    \E nick \in Others, flags \in {"G", "H"} :
        receive(Plain("RPL_WHOREPLY", Room, nick, flags, None))

RecvWhoSpcRpl ==
    \E nick \in Others, flags \in {"G", "H"} :
        receive(Msg("RPL_WHOSPCRPL", WHO_POLL_TOKEN, Room, nick, flags, None,
                    None, None, None, 0))

InitUsers == Constructed(DefaultConfig)

NextUsers ==
    \/ RecvSelfJoin
    \/ RecvJoin
    \/ RecvNames
    \/ RecvNick
    \/ RecvAway
    \/ RecvAccount
    \/ RecvChghost
    \/ RecvMode
    \/ RecvWhoReply
    \/ RecvWhoSpcRpl

SpecUsers == InitUsers /\ [][NextUsers]_vars

\* C7: for every channel of chanmap and every nickname, the channel's users
\* hold at most one User with that nickname, after every JOIN, NAMES, NICK
\* (also to a nickname already present), AWAY, ACCOUNT, CHGHOST, MODE and WHO
\* update
C7_OneUserPerNickname ==
    \A c \in DOMAIN chanmap :
        \A u, v \in chanmap[c].users : u.nickname = v.nickname => u = v

\* a NICK to a nickname already present in the channel was just processed for
\* a user of the channel
C7_Witness ==
    /\ IsSome(hist.snap)
    /\ ~Unwrap(hist.snap).free
    /\ Unwrap(hist.snap).from # Unwrap(hist.snap).to
    /\ Room \in DOMAIN chanmap
    /\ Cardinality(Unwrap(hist.snap).users[Room]) = 2
    /\ Cardinality(chanmap[Room].users) = 1

\* ---------------------------------------------------------------- sorted views
\* channel names with the default prefixes, with a repeated prefix, and with a
\* character that is a channel prefix only when CHANTYPES says so
SyncChans == {<<"#", "b">>, <<"&", "a">>, <<"$", "c">>, <<"#", "#", "a">>}

ChantypesOps ==
    {<<[kind |-> "CHANTYPES", op |-> "Add", value |-> Some({"#", "&", "$"})]>>,
     <<[kind |-> "CHANTYPES", op |-> "Remove", value |-> None]>>}

\* we join a channel
SyncJoin ==
    \E chan \in SyncChans :
        /\ chan \in DOMAIN chanmap \/ Cardinality(DOMAIN chanmap) < MaxChans
        /\ receive(Plain("JOIN", chan, None, None, Some(<<"m">>)))

\* we leave a channel
SyncPart ==
    \E chan \in DOMAIN chanmap :
        receive(Plain("PART", chan, None, None, Some(<<"m">>)))

\* the names of a # channel we are in
SyncNames ==
    \E chan \in {c \in DOMAIN chanmap : c[1] = "#"} :
        receive(Plain("RPL_NAMREPLY", chan, <<<<"b">>, <<"a">>>>, None, None))

\* RPL_ISUPPORT with CHANTYPES=#&$ or -CHANTYPES
SyncChantypes ==
    \E ops \in ChantypesOps : receive(Plain("RPL_ISUPPORT", ops, None, None, None))

InitSync == Constructed(DefaultConfig)

NextSync ==
    \/ SyncJoin
    \/ SyncPart
    \/ SyncNames
    \/ SyncChantypes
    \/ sync

SpecSync == InitSync /\ [][NextSync]_vars

C9_ViewsAgreeAfterSync ==
    input.op = "sync" =>
        /\ Range(channels) = DOMAIN chanmap
        /\ Len(channels) = Cardinality(DOMAIN chanmap)
        /\ \A c \in SyncChans :
              LET members == IF c \in DOMAIN chanmap THEN chanmap[c].users ELSE {}
              IN  /\ Range(UsersView(c)) = members
                  /\ Len(UsersView(c)) = Cardinality(members)

\* sync has just run after a channel that the views listed with its users was
\* left, with another channel and its users still there
C9_Witness ==
    /\ input.op = "sync"
    /\ \E c \in input.had : c \notin DOMAIN chanmap
    /\ \E c \in DOMAIN chanmap : Len(UsersView(c)) = 2

\* ---------------------------------------------------------------- ISUPPORT table
\* the arguments of an RPL_ISUPPORT line, parsed: KEY=value of a known kind,
\* -KEY of a known kind, or a token that is ignored
IsupportKinds == {"CHANTYPES", "MONITOR", "WHOX"}

IsupportAdds ==
    {[kind |-> "CHANTYPES", op |-> "Add", value |-> Some({"#"})],
     [kind |-> "CHANTYPES", op |-> "Add", value |-> None],
     [kind |-> "MONITOR", op |-> "Add", value |-> Some(1)],
     [kind |-> "MONITOR", op |-> "Add", value |-> None],
     [kind |-> "WHOX", op |-> "Add", value |-> None]}

IsupportRemoves == {[kind |-> k, op |-> "Remove", value |-> None] : k \in IsupportKinds}

IsupportIgnored == [kind |-> "UNKNOWN", op |-> "Ignore", value |-> None]

IsupportConfig == [DefaultConfig EXCEPT !.monitor = <<<<"a">>, <<"b">>>>]

\* RPL_ISUPPORT with one argument after the nickname
ReceiveIsupportOne ==
    \E o \in IsupportAdds \cup IsupportRemoves \cup {IsupportIgnored} :
        receive(Plain("RPL_ISUPPORT", <<o>>, None, None, None))

\* RPL_ISUPPORT with two arguments after the nickname
ReceiveIsupportTwo ==
    \E o1 \in IsupportAdds, o2 \in IsupportRemoves :
        receive(Plain("RPL_ISUPPORT", <<o1, o2>>, None, None, None))

InitIsupport == Constructed(IsupportConfig)

NextIsupport ==
    \/ ReceiveIsupportOne
    \/ ReceiveIsupportTwo
    \/ Drain

SpecIsupport == InitIsupport /\ [][NextIsupport]_vars

\* C11 as claimed: an RPL_ISUPPORT that adds a parameter P of a known kind,
\* directly followed by an RPL_ISUPPORT that removes P's kind, leaves the
\* ISUPPORT table equal to the table T before the two messages
C11_AddRemoveRestores ==
    IsSome(hist.irt) => isupport = Unwrap(hist.irt).table

\* C11 as amended: the same, when T holds no parameter of P's kind
C11_AddRemoveRestoresFresh ==
    (IsSome(hist.irt) /\ Unwrap(hist.irt).fresh) =>
        isupport = Unwrap(hist.irt).table

\* MONITOR was added to a table that holds other parameters but no MONITOR,
\* and then removed
C11_Witness ==
    /\ IsSome(hist.irt)
    /\ Unwrap(hist.irt).fresh
    /\ Unwrap(hist.irt).table # EmptyMap
    /\ input.message.a[1].kind = "MONITOR"

\* C12: after any sequence of CAP LS, CAP NEW and CAP DEL messages listed_caps
\* holds no capability name more than once; a CAP NEW that names a capability
\* already listed leaves listed_caps unchanged
C12_ListedCapsDistinct ==
    \A i, j \in DOMAIN listed_caps : listed_caps[i] = listed_caps[j] => i = j

\* ---------------------------------------------------------------------------
\* Nick resolution: alt nicks, RPL_WELCOME and a NICK for ourself
\* ---------------------------------------------------------------------------

MaxInUse == 4

InUseNumerics == {"ERR_NICKNAMEINUSE", "ERR_ERRONEUSNICKNAME"}

NickConfigs ==
    {[DefaultConfig EXCEPT !.alt_nicks = alts, !.nick_password = pass,
                           !.should_ghost = IsSome(pass), !.umodes = pass]
       : alts \in {<<>>, <<<<"a">>>>, <<<<"a">>, <<"b">>>>},
         pass \in {None, Some("p")}}

RecvNickInUse ==
    \E cmd \in InUseNumerics :
        /\ hist.inuse < MaxInUse
        /\ receive(Plain(cmd, None, None, None, None))

RecvWelcome ==
    \E first \in {None, Some(config.nickname), Some(<<"a">>), Some(<<"b">>)} :
        receive(Plain("RPL_WELCOME", first, None, None, None))

RecvOwnNick ==
    \E nick \in {<<"a">>, <<"c">>} :
        receive(Plain("NICK", nick, None, None, Some(nickname)))

InitNick == \E cfg \in NickConfigs : Constructed(cfg)

NextNick ==
    \/ RecvNickInUse
    \/ RecvWelcome
    \/ RecvOwnNick
    \/ Drain

SpecNick == InitNick /\ [][NextNick]_vars

\* the NICK messages among those the last operation put on the sink
NicksSent == SelectSeq(sent, LAMBDA o : o.command = "NICK")

InUseWhileUnresolved ==
    /\ input.op = "receive"
    /\ input.message.cmd \in InUseNumerics
    /\ ~IsSome(hist.nick0[2])

\* C13: before the nick is resolved, with n alt nicks configured, the k-th
\* nickname-in-use numeric (1 <= k <= n) sends NICK alt_nicks[k-1] (unless the
\* sink refuses it), and every such numeric after the n-th sends no NICK: the
\* client never starts over at the first alt nick.
C13_AltNicksThenStop ==
    InUseWhileUnresolved =>
        IF hist.inuse <= Len(config.alt_nicks)
          THEN \/ sent = <<Out("NICK", <<config.alt_nicks[hist.inuse]>>, <<>>)>>
               \/ ~hret.ok /\ sent = <<>>
          ELSE NicksSent = <<>>

InUseWhileResolved ==
    /\ input.op = "receive"
    /\ input.message.cmd \in InUseNumerics
    /\ IsSome(hist.nick0[2])

\* C14: once resolved_nick is set, a later nickname-in-use numeric sends no
\* NICK and leaves alt_nick and resolved_nick as they were; RPL_WELCOME sets
\* resolved_nick to its first argument.
C14_ResolvedNickIgnoresInUse ==
    /\ InUseWhileResolved =>
          /\ NicksSent = <<>>
          /\ <<alt_nick, resolved_nick>> = hist.nick0
    /\ (input.op = "receive" /\ input.message.cmd = "RPL_WELCOME"
          /\ IsSome(input.message.a)) => resolved_nick = input.message.a

\* a numeric ignored after RPL_WELCOME adopted an alt nick that was being tried
C14_Witness ==
    /\ InUseWhileResolved
    /\ alt_nick = Some(0)
    /\ resolved_nick = Some(<<"a">>)
    /\ hist.inuse = 1

\* ---------------------------------------------------------------------------
\* CAP ACK and the SASL exchange
\* ---------------------------------------------------------------------------

AckReceived ==
    /\ input.op = "receive"
    /\ input.message.cmd = "CAP ACK"
    /\ IsSome(CapsArg(input.message))

\* a push to the sink either is accepted or is refused by a full sink, and then
\* receive returns the error
Pushed(msgs) ==
    \/ sent = msgs
    \/ ~hret.ok /\ sent = <<>>

\* C15: on every CAP ACK with a capability list: when SASL is configured and
\* the list contains sasl the step becomes Sasl, AUTHENTICATE <mechanism> is
\* pushed and no CAP END; otherwise the step becomes End and exactly one CAP END
\* is pushed. Without SASL configured a CAP ACK always ends with CAP END and
\* step End.
C15_CapAckChoosesSaslOrEnd ==
    AckReceived =>
        IF IsSome(config.sasl) /\ Contains(Unwrap(CapsArg(input.message)), "sasl")
          THEN /\ registration_step = Sasl
               /\ Pushed(<<Out("AUTHENTICATE", <<SaslCommand(Unwrap(config.sasl))>>, <<>>)>>)
          ELSE /\ registration_step = End
               /\ Pushed(<<CapEnd>>)

\* SASL configured and acknowledged: AUTHENTICATE PLAIN went out and the
\* client waits for the challenge
C15_Witness ==
    /\ AckReceived
    /\ config.sasl = Some(SaslPlain)
    /\ registration_step = Sasl
    /\ listed_caps = <<"sasl">>
    /\ sent = <<Out("AUTHENTICATE", <<<<"PLAIN">>>>, <<>>)>>

ParameterSent(msgs) == \E i \in DOMAIN msgs : IsParameter(msgs[i])

\* C16: with SASL configured the AUTHENTICATE <parameter> goes out only in
\* answer to an AUTHENTICATE + received while the step is Sasl, followed by CAP
\* END with the step End, and no CAP END goes out between the AUTHENTICATE
\* <mechanism> and the AUTHENTICATE <parameter>.
C16_SaslExchangeInOrder ==
    [][input'.op = "receive" =>
         /\ ParameterSent(sent') =>
               /\ input'.message.cmd = "AUTHENTICATE"
               /\ registration_step = Sasl
         /\ (hist.pending /\ Contains(sent', CapEnd)) =>
               /\ ParameterSent(sent')
               /\ sent'[Len(sent')] = CapEnd
               /\ registration_step' = End]_vars

\* ---------------------------------------------------------------------------
\* A labelled WHOIS and its replies
\* ---------------------------------------------------------------------------

\* C17: with labeled-response enabled, send of a WHOIS from buffer X stores a
\* WHOIS context for X under the new label and sets the reroute target to X; an
\* inbound reply carrying that label is returned as WithTarget addressed to X
\* and takes the label out of the table (the reroute target stays unless the
\* reply is itself a terminating numeric); the unlabeled RPL_ENDOFWHOIS received
\* while the reroute target is X is returned as WithTarget addressed to X and
\* leaves no reroute target.
C17_LabeledWhoisRerouted ==
    [][/\ (input'.op = "send" /\ input'.command = "WHOIS" /\ supports_labels) =>
             /\ generate_label \notin DOMAIN labels
             /\ generate_label \in DOMAIN labels'
             /\ labels'[generate_label] = [kind |-> "Whois", buffer |-> input'.buffer]
             /\ reroute_responses_to' = Some(input'.buffer)
       /\ (/\ input'.op = "receive"
           /\ input'.message.cmd # "BATCH"
           /\ LabelMatches(input'.message)
           /\ is_whois(Some(labels[Unwrap(input'.message.label)]))) =>
             /\ ret' = Ok(<<WithTarget(input'.message,
                                       labels[Unwrap(input'.message.label)].buffer)>>)
             /\ Unwrap(input'.message.label) \notin DOMAIN labels'
             /\ reroute_responses_to' =
                   IF input'.message.cmd \in StopNumerics THEN None ELSE reroute_responses_to
       /\ (/\ input'.op = "receive"
           /\ input'.message.cmd = "RPL_ENDOFWHOIS"
           /\ ~IsSome(input'.message.label)
           /\ ~IsSome(input'.message.batch)
           /\ IsSome(reroute_responses_to)) =>
             /\ ret' = Ok(<<WithTarget(input'.message, Unwrap(reroute_responses_to))>>)
             /\ reroute_responses_to' = None
             /\ labels' = labels]_vars

\* the end of the exchange: one WHOIS was sent from buffer x, its labelled
\* reply was matched, and the unlabeled RPL_ENDOFWHOIS has just been returned
\* addressed to x
C17_Witness ==
    /\ input.op = "receive"
    /\ input.message.cmd = "RPL_ENDOFWHOIS"
    /\ ~IsSome(input.message.label)
    /\ ret = Ok(<<WithTarget(input.message, "x")>>)
    /\ hist.issued = 1
    /\ \E l \in DOMAIN hist.matched : hist.matched[l] = 1
    /\ labels = EmptyMap
    /\ reroute_responses_to = None

\* ---------------------------------------------------------------------------
\* group_joins: which channel goes into which JOIN
\* ---------------------------------------------------------------------------

\* the places (message, position) at which the JOINs name the channel c
JoinPlaces(c) ==
    {p \in (DOMAIN shOut) \X (1..MaxItems) :
        /\ p[2] \in DOMAIN shOut[p[1]].items
        /\ shOut[p[1]].items[p[2]] = c}

PositionIn(list, c) == CHOOSE i \in DOMAIN list : list[i] = c

\* C18: group_joins emits every input channel in exactly one JOIN; channels
\* without a key only in JOINs without a key parameter, channels with a key
\* only in JOINs whose i-th key is the key of their i-th channel; channels keep
\* their input order inside a message; all keyless JOINs come before the keyed
\* ones.
C18_JoinsPartitionByKey ==
    (IsSome(shIn) /\ Unwrap(shIn).fn = "group_joins") =>
        LET list == Unwrap(shIn).list
            keys == Unwrap(shIn).keys
        IN  /\ \A c \in Range(list) : Cardinality(JoinPlaces(c)) = 1
            /\ \A k \in DOMAIN shOut :
                  LET msg == shOut[k]
                  IN  /\ msg.command = "JOIN"
                      /\ msg.items # <<>>
                      /\ Range(msg.items) \subseteq Range(list)
                      /\ IF msg.keys = <<>>
                           THEN \A j \in DOMAIN msg.items : msg.items[j] \notin DOMAIN keys
                           ELSE /\ Len(msg.keys) = Len(msg.items)
                                /\ \A j \in DOMAIN msg.items :
                                      /\ msg.items[j] \in DOMAIN keys
                                      /\ msg.keys[j] = keys[msg.items[j]]
                      /\ \A i, j \in DOMAIN msg.items :
                            i < j => PositionIn(list, msg.items[i]) < PositionIn(list, msg.items[j])
            /\ \A k1, k2 \in DOMAIN shOut :
                  (k1 < k2 /\ shOut[k1].keys # <<>>) => shOut[k2].keys # <<>>

\* one keyless JOIN followed by a JOIN of two channels with their two keys
C18_Witness ==
    /\ IsSome(shIn)
    /\ Unwrap(shIn).fn = "group_joins"
    /\ Len(shOut) = 2
    /\ shOut[1] = Out("JOIN", <<"i2">>, <<>>)
    /\ shOut[2] = Out("JOIN", <<"i1", "i3">>, <<"k1", "k3">>)

\* ---------------------------------------------------------------------------
\* Writes the client makes after registration
\* ---------------------------------------------------------------------------

MaxPending == 2

WriteChans == {<<"#", "a">>, <<"#", "b">>}

WriteConfig ==
    [DefaultConfig EXCEPT !.who_poll_enabled = TRUE, !.channels = <<<<"#", "a">>>>]

WriteWelcome == receive(Plain("RPL_WELCOME", Some(config.nickname), None, None, None))

WriteSelfJoin ==
    \E chan \in WriteChans : receive(Plain("JOIN", chan, None, None, Some(nickname)))

\* the server refuses a configured channel until the nick is registered
WriteNeedReg ==
    \E chan \in WriteChans :
        /\ Len(registration_required_channels) < MaxPending
        /\ receive(Plain("ERR_NOCHANMODES", Some(chan), None, None, None))

\* we are logged in: the pending channels are flushed
WriteAccount == receive(Plain("ACCOUNT", "acc", None, None, Some(nickname)))

WriteUserJoin == \E chan \in WriteChans : join(<<chan>>)

InitWrite == Constructed(WriteConfig)

NextWrite ==
    \/ WriteWelcome
    \/ WriteSelfJoin
    \/ WriteNeedReg
    \/ WriteAccount
    \/ WriteUserJoin
    \/ Drain

SpecWrite == InitWrite /\ [][NextWrite]_vars

\* C19: after registration a refused push of an unsolicited write (the WHO on
\* a self-JOIN, the JOIN flush of the pending channels, a JOIN of the user) does
\* not make receive or join return an error, and a self-JOIN whose WHO was
\* refused leaves the channel as if no WHO had been attempted.
C19_RefusedWriteSwallowed ==
    /\ (/\ input.op = "receive"
        /\ input.message.cmd \in {"JOIN", "ACCOUNT"}
        /\ IsSome(input.message.src)
        /\ IsSome(hist.nick0[2])) =>
          /\ ret.ok
          /\ (input.message.cmd = "JOIN" /\ sent = <<>>) =>
                chanmap[input.message.a].last_who = None
    /\ (input.op = "join" /\ IsSome(resolved_nick)) => ret.ok

\* ---------------------------------------------------------------------------
\* Recognized commands that arrive without a required argument
\* ---------------------------------------------------------------------------

ArgChan == <<"#", "a">>

OptChans == {None, Some(ArgChan), Some(<<"#", "b">>)}

\* our own JOIN, so that the channel is tracked
ArgsSelfJoin == receive(Plain("JOIN", ArgChan, None, None, Some(nickname)))

ArgsTopic ==
    \E chan \in OptChans, text \in {None, Some("t")} :
        receive(Plain("RPL_TOPIC", chan, text, None, None))

ArgsTopicWhoTime ==
    \E chan \in OptChans, who \in {None, Some("w")}, time \in {None, Some("1"), Some("x")} :
        receive(Plain("RPL_TOPICWHOTIME", chan, who, time, None))

ArgsWelcome ==
    \E first \in {None, Some(config.nickname)} :
        receive(Plain("RPL_WELCOME", first, None, None, None))

ArgsNoChanModes ==
    \E chan \in OptChans : receive(Plain("ERR_NOCHANMODES", chan, None, None, None))

ArgsCap ==
    \E sub \in {"CAP ACK", "CAP NAK", "CAP DEL"}, caps \in {None, Some(<<"batch">>)} :
        receive(Plain(sub, caps, None, None, None))

ArgsNickInUse ==
    /\ hist.inuse < MaxInUse
    /\ receive(Plain("ERR_NICKNAMEINUSE", None, None, None, None))

InitArgs == Constructed(DefaultConfig)

NextArgs ==
    \/ ArgsSelfJoin
    \/ ArgsTopic
    \/ ArgsTopicWhoTime
    \/ ArgsWelcome
    \/ ArgsNoChanModes
    \/ ArgsCap
    \/ ArgsNickInUse
    \/ Drain

SpecArgs == InitArgs /\ [][NextArgs]_vars

\* the message lacks an argument its handler needs whatever the state
LacksRequired(m) ==
    \/ m.cmd \in {"RPL_TOPIC", "RPL_TOPICWHOTIME", "RPL_WELCOME", "ERR_NOCHANMODES"}
         /\ ~IsSome(m.a)
    \/ m.cmd \in {"CAP ACK", "CAP NAK", "CAP DEL"} /\ ~IsSome(CapsArg(m))

\* C20: a recognized command or numeric that arrives without a required
\* argument makes receive return an error value, without aborting the client:
\* so do RPL_TOPIC and RPL_TOPICWHOTIME with fewer than two arguments, and an
\* ERR_NICKNAMEINUSE processed with an empty alt_nicks list.
C20_MissingArgumentIsError ==
    input.op = "receive" =>
        /\ LacksRequired(input.message) => (~ret.ok /\ ~ret.panic)
        /\ (/\ input.message.cmd = "ERR_NICKNAMEINUSE"
            /\ config.alt_nicks = <<>>
            /\ ~IsSome(hist.nick0[2])) => (~ret.ok /\ ~ret.panic)

\* ---------------------------------------------------------------------------
\* connect: the handshake
\* ---------------------------------------------------------------------------

ConnectConfigs ==
    {[DefaultConfig EXCEPT !.password = pass, !.username = user, !.realname = real]
       : pass \in BOOLEAN, user \in {None, Some(<<"u">>)}, real \in {None, Some(<<"r">>)}}

\* the connection takes one message off the sink
TakeOne ==
    /\ handle < SinkCap
    /\ handle' = handle + 1
    /\ input' = [op |-> "drain"]
    /\ UNCHANGED <<config, sent, nickVars, chanmap, viewVars, labels, batches,
                   reroute_responses_to, capVars, registration_required_channels,
                   isupport, clock, hret, ret, hist, shVars>>

ConnectAck == receive(Plain("CAP ACK", Some(<<"batch">>), None, None, None))

InitConnect == \E cfg \in ConnectConfigs : Constructed(cfg)

NextConnect ==
    \/ connect
    \/ ConnectAck
    \/ TakeOne

SpecConnect == InitConnect /\ [][NextConnect]_vars

\* what the handshake is to consist of
Handshake ==
    <<Out("CAP LS 302", <<>>, <<>>)>>
    \o (IF config.password THEN <<Out("PASS", <<>>, <<>>)>> ELSE <<>>)
    \o <<Out("NICK", <<config.nickname>>, <<>>)>>
    \o <<Out("USER", <<IF IsSome(config.username) THEN Unwrap(config.username)
                                                 ELSE config.nickname,
                       IF IsSome(config.realname) THEN Unwrap(config.realname)
                                                 ELSE config.nickname>>, <<>>)>>

\* C21: connect pushes CAP LS 302, PASS (only with a server password), NICK and
\* USER in that order and sets the step to List once all were accepted; when a
\* push is refused connect returns the error, pushes nothing further and leaves
\* the step as it was.
C21_ConnectHandshakeInOrder ==
    [][input'.op = "connect" =>
         IF handle >= Len(Handshake)
           THEN /\ sent' = Handshake
                /\ registration_step' = List
                /\ ret'.ok
           ELSE /\ sent' = SubSeq(Handshake, 1, handle)
                /\ registration_step' = registration_step
                /\ ~ret'.ok]_vars

\* a handshake with a password cut short after PASS, the step still End
C21_Witness ==
    /\ input.op = "connect"
    /\ ~ret.ok
    /\ Len(sent) = 2
    /\ sent[2].command = "PASS"
    /\ registration_step = End

\* ---------------------------------------------------------------- client::Map
Servers == {"s1", "s2", "s3"}

Disconnected == [kind |-> "Disconnected"]
Ready(client) == [kind |-> "Ready", client |-> client]

\* A client held by the Map is kept as its sink: the free slots of its
\* outbound channel and what the last Map operation pushed on it.
quitDropped(client, reason) == [client EXCEPT !.sent = <<>>]

\* Client::quit: try_send QUIT (with the reason, if any); a refusal is logged only
quit(client, reason) ==
    IF client.handle >= 1
    THEN [handle |-> client.handle - 1, sent |-> <<Out("QUIT", reason, <<>>)>>]
    ELSE [client EXCEPT !.sent = <<>>]

\* the Map as an operation finds it: nothing pushed yet
Quiet(m) ==
    [s \in DOMAIN m |->
        IF m[s].kind = "Ready" THEN Ready([m[s].client EXCEPT !.sent = <<>>]) ELSE m[s]]

UnchangedByMap ==
    UNCHANGED <<config, handle, sent, nickVars, chanmap, viewVars, labels, batches,
                reroute_responses_to, capVars, registration_required_channels,
                isupport, clock, hret, ret, hist, shIn, shOut, highlight_blackout>>

\* Map::disconnected
MapDisconnected ==
    \E server \in Servers :
        /\ Map' = (server :> Disconnected) @@ Quiet(Map)
        /\ input' = [op |-> "disconnected", server |-> server]
        /\ UNCHANGED exited
        /\ UnchangedByMap

\* Map::ready, with a client whose sink has `free` slots left
MapReady ==
    \E server \in Servers, free \in 0..SinkCap :
        /\ Map' = (server :> Ready([handle |-> free, sent |-> <<>>])) @@ Quiet(Map)
        /\ input' = [op |-> "ready", server |-> server]
        /\ UNCHANGED exited
        /\ UnchangedByMap

\* Map::remove
MapRemoveServer ==
    \E server \in DOMAIN Map :
        /\ Map' = [s \in DOMAIN Map \ {server} |-> Quiet(Map)[s]]
        /\ input' = [op |-> "remove", server |-> server]
        /\ UNCHANGED exited
        /\ UnchangedByMap

\* Map::quit
MapQuit ==
    \E server \in Servers, reason \in {None, Some(<<"b">>)} :
        /\ Map' = [s \in DOMAIN Map |->
                      IF s = server /\ Map[s].kind = "Ready"
                      THEN Ready(quit(Quiet(Map)[s].client, reason))
                      ELSE Quiet(Map)[s]]
        /\ input' = [op |-> "quit", server |-> server]
        /\ UNCHANGED exited
        /\ UnchangedByMap

\* Map::exit
exit ==
    /\ Map' = [s \in DOMAIN Map |->
                  IF Map[s].kind = "Ready"
                  THEN Ready(quit(Quiet(Map)[s].client, None))
                  ELSE Map[s]]
    /\ exited' = {s \in DOMAIN Map : Map[s].kind = "Ready"}
    /\ input' = [op |-> "exit"]
    /\ UnchangedByMap

InitMap == Constructed(DefaultConfig)

NextMap ==
    \/ MapDisconnected
    \/ MapReady
    \/ MapRemoveServer
    \/ MapQuit
    \/ exit

SpecMap == InitMap /\ [][NextMap]_vars

\* C22: Map::exit pushes exactly one QUIT on the sink of every Ready client (a
\* refusal by a full sink is swallowed), pushes nothing for a Disconnected
\* entry, returns exactly the servers whose state was Ready, and leaves the
\* server -> state mapping as it was.
C22_ExitQuitsEveryReadyClient ==
    [][input'.op = "exit" =>
        /\ exited' = {s \in DOMAIN Map : Map[s].kind = "Ready"}
        /\ DOMAIN Map' = DOMAIN Map
        /\ \A s \in DOMAIN Map :
            /\ Map'[s].kind = Map[s].kind
            /\ Map[s].kind = "Disconnected" => Map'[s] = Disconnected
            /\ Map[s].kind = "Ready" =>
                IF Map[s].client.handle >= 1
                THEN /\ Map'[s].client.sent = <<Out("QUIT", None, <<>>)>>
                     /\ Map'[s].client.handle = Map[s].client.handle - 1
                ELSE /\ Map'[s].client.sent = <<>>
                     /\ Map'[s].client.handle = 0]_vars

\* exit met a Disconnected entry, a Ready client that took the QUIT and a
\* Ready client whose sink was full
C22_Witness ==
    /\ input.op = "exit"
    /\ \E a, b, c \in DOMAIN Map :
        /\ Map[a] = Disconnected
        /\ Map[b].kind = "Ready" /\ Map[b].client.sent # <<>>
        /\ Map[c].kind = "Ready" /\ Map[c].client.sent = <<>>
        /\ exited = {b, c}

\* ---------------------------------------------------------------------------
\* CAP LS
\* ---------------------------------------------------------------------------

\* the capability names of the CAP REQ messages among msgs
RECURSIVE ReqNames(_)
ReqNames(msgs) ==
    IF msgs = <<>> THEN {}
    ELSE (IF Head(msgs).command = "CAP REQ" THEN Range(Head(msgs).items) ELSE {})
         \cup ReqNames(Tail(msgs))

\* what a complete capability list makes the client ask for
AskedOf(advertised) ==
    {cap \in Range(CapOrder) :
        /\ IF cap = "sasl" THEN \E a \in advertised : StartsWithSasl(a)
                           ELSE cap \in advertised
        /\ cap = "extended-join" => "account-notify" \in advertised
        /\ cap = "echo-message" => "labeled-response" \in advertised}

\* C23: a CAP LS line with the asterisk pushes nothing and leaves the step;
\* the terminating CAP LS line computes the request from the capabilities of
\* all lines so far and then either pushes CAP REQ and sets the step to Req, or
\* pushes CAP END and sets the step to End, never both.
C23_CapLsContinuationThenRequest ==
    [][(input'.op = "receive" /\ input'.message.cmd = "CAP LS") =>
        LET m == input'.message
            chunk == Range(Unwrap(CapsArg(m)))
            asked == AskedOf(Range(listed_caps) \cup chunk)
        IN  IF IsSome(m.b)
              THEN /\ sent' = <<>>
                   /\ registration_step' = registration_step
                   /\ Range(listed_caps') = Range(listed_caps) \cup chunk
              ELSE IF asked # {}
                THEN /\ registration_step' = Req
                     /\ \A i \in DOMAIN sent' : sent'[i].command = "CAP REQ"
                     /\ hret'.ok => sent' # <<>> /\ ReqNames(sent') = asked
                     /\ ~hret'.ok => Len(sent') = handle
                ELSE /\ registration_step' = End
                     /\ sent' = <<CapEnd>> \/ (~hret'.ok /\ sent' = <<>>)]_vars

\* the last CAP LS line asked for a capability of an earlier line as well
C23_Witness ==
    /\ input.op = "receive"
    /\ input.message.cmd = "CAP LS"
    /\ ~IsSome(input.message.b)
    /\ registration_step = Req
    /\ Len(sent) = 1
    /\ \E cap \in ReqNames(sent) : ~Contains(Unwrap(input.message.a), cap)
    /\ \E cap \in ReqNames(sent) : Contains(Unwrap(input.message.a), cap)

\* ---------------------------------------------------------------------------
\* requested capabilities
\* ---------------------------------------------------------------------------

\* capability tokens as CAP LS 302 and CAP NEW list them, and the names CAP
\* DEL lists
CapTokens == {"sasl=PLAIN", "account-notify", "extended-join", "labeled-response",
              "echo-message"}
CapNames == {CapName(token) : token \in CapTokens}

CapsLS ==
    \E token \in CapTokens, more \in BOOLEAN :
        /\ Len(listed_caps) + 1 <= MaxListed
        /\ receive(Plain("CAP LS", IF more THEN Some(<<"*">>) ELSE Some(<<token>>),
                         IF more THEN Some(<<token>>) ELSE None, None, None))

CapsNEW ==
    \E token \in CapTokens :
        /\ Len(listed_caps) + 1 <= MaxListed
        /\ receive(Plain("CAP NEW", Some(<<token>>), None, None, None))

CapsDEL ==
    \E name \in CapNames : receive(Plain("CAP DEL", Some(<<name>>), None, None, None))

InitCaps == Constructed(DefaultConfig)

NextCaps ==
    \/ CapsLS
    \/ CapsNEW
    \/ CapsDEL
    \/ Drain

SpecCaps == InitCaps /\ [][NextCaps]_vars

\* C24: every capability named in a CAP REQ was advertised by a CAP LS or a
\* CAP NEW and not removed by a later CAP DEL; extended-join is requested only
\* when account-notify is advertised, echo-message only when labeled-response is.
C24_RequestedWasAdvertised ==
    input.op = "receive" =>
        /\ ReqNames(sent) \subseteq hist.advertised
        /\ "extended-join" \in ReqNames(sent) => "account-notify" \in hist.advertised
        /\ "echo-message" \in ReqNames(sent) => "labeled-response" \in hist.advertised

\* ---------------------------------------------------------------------------
\* acknowledged capabilities: labels and read markers
\* ---------------------------------------------------------------------------
AckLists == {<<"labeled-response">>, <<"draft/read-marker">>,
             <<"labeled-response", "draft/read-marker">>, <<"batch">>}

MarkACK == \E caps \in AckLists : receive(Plain("CAP ACK", Some(caps), None, None, None))

MarkDEL == \E caps \in AckLists : receive(Plain("CAP DEL", Some(caps), None, None, None))

MarkSend ==
    \E from \in {<<"x", "WHOIS">>, <<"y", "PRIVMSG">>} :
        /\ clock < MaxLabels
        /\ send(from[1], from[2], <<"a">>)

MarkRead == \E read_marker \in {"t1", "t2"} : send_markread(<<"#", "a">>, read_marker)

InitMark == Constructed(DefaultConfig)

NextMark ==
    \/ MarkACK
    \/ MarkDEL
    \/ MarkSend
    \/ MarkRead
    \/ TakeOne

SpecMark == InitMark /\ [][NextMark]_vars

\* C25: send attaches a label tag and records a Context exactly when
\* labeled-response was named in some CAP ACK and in no later CAP DEL;
\* send_markread pushes MARKREAD exactly when draft/read-marker was so
\* acknowledged, and otherwise pushes nothing and returns Ok.
C25_AckedCapabilitiesGateLabelsAndMarkread ==
    [][/\ input'.op = "send" =>
            IF "labeled-response" \in hist.acked
              THEN /\ DOMAIN labels' = DOMAIN labels \cup {generate_label}
                   /\ labels'[generate_label] = NewContext(input'.command, input'.buffer)
                   /\ \A i \in DOMAIN sent' : "label" \in DOMAIN sent'[i]
                                              /\ sent'[i].label = generate_label
              ELSE /\ labels' = labels
                   /\ \A i \in DOMAIN sent' : "label" \notin DOMAIN sent'[i]
       /\ input'.op = "send_markread" =>
            IF "draft/read-marker" \in hist.acked
              THEN \/ /\ Len(sent') = 1 /\ sent'[1].command = "MARKREAD" /\ ret'.ok
                   \/ /\ sent' = <<>> /\ ~ret'.ok /\ handle = 0
              ELSE sent' = <<>> /\ ret'.ok]_vars

\* a MARKREAD went out after an acknowledgement, a withdrawal and a second
\* acknowledgement, with a labelled command still unanswered
C25_Witness ==
    /\ input.op = "send_markread"
    /\ Len(sent) = 1
    /\ sent[1].command = "MARKREAD"
    /\ labels # EmptyMap
    /\ ~supports_labels

\* ---------------------------------------------------------------------------
\* rerouted replies
\* ---------------------------------------------------------------------------
MaxSends == 3

\* the UI sends a query or a message from buffer x or y
RouteSend ==
    \E buffer \in {"x", "y"},
       to \in {<<"WHOIS", <<"a">>>>, <<"MODE", <<"m">>>>, <<"MODE", <<"#", "a">>>>,
               <<"PRIVMSG", <<"a">>>>} :
        /\ clock < MaxSends
        /\ send(buffer, to[1], to[2])

\* a numeric or unknown reply without tags
RouteReply ==
    \E cmd \in {"RPL_WHOISUSER", "RPL_ENDOFWHOIS", "RPL_UMODEIS", "UNKNOWN"} :
        receive(Plain(cmd, <<"a">>, None, None, None))

InitRoute == Constructed(DefaultConfig)

NextRoute ==
    \/ RouteSend
    \/ RouteReply
    \/ Drain

SpecRoute == InitRoute /\ [][NextRoute]_vars

\* C26: after a WHO, WHOIS, WHOWAS or a MODE on a target that is no channel
\* was sent from buffer B, every numeric or unknown reply received is returned
\* as WithTarget to B, up to and including the first terminating numeric; the
\* replies after that one are not rerouted.
C26_RepliesReroutedUntilTerminator ==
    [][(input'.op = "receive" /\ IsNumericOrUnknown(input'.message.cmd)) =>
        IF IsSome(hist.route)
          THEN ret'.events = <<WithTarget(input'.message, Unwrap(hist.route))>>
          ELSE \A i \in DOMAIN ret'.events : ret'.events[i].kind # "WithTarget"]_vars

\* ---------------------------------------------------------------------------
\* the context of an inbound message
\* ---------------------------------------------------------------------------
\* no label tag, or the tag of an outstanding label
LabelChoices == {None} \cup {Some(l) : l \in DOMAIN labels}
\* no batch tag, or the tag of an open batch
OpenTags == {None} \cup {Some(r) : r \in DOMAIN batches}

\* labeled-response is acknowledged before anything else happens
CtxACK ==
    /\ input.op = "new"
    /\ receive(Plain("CAP ACK", Some(<<"labeled-response">>), None, None, None))

CtxSend ==
    \E from \in {<<"x", "WHOIS">>, <<"y", "PRIVMSG">>} :
        /\ supports_labels
        /\ clock < MaxLabels
        /\ send(from[1], from[2], <<"a">>)

CtxBatchOpen ==
    \E ref \in Refs \ DOMAIN hist.tree, label \in LabelChoices, tag \in OpenTags :
        /\ StreamIntact
        /\ \A r \in Refs : r < ref => r \in DOMAIN hist.tree
        /\ receive(Msg("BATCH", "+", ref, None, None, None, None, label, tag, 0))

CtxBatchClose ==
    \E ref \in DOMAIN batches :
        /\ StreamIntact
        /\ receive(Msg("BATCH", "-", ref, None, None, None, None, None,
                       hist.tree[ref].parent, 0))

\* a numeric or a NOTICE with any of the tags, the first one of its batch
CtxReply ==
    \E cmd \in {"RPL_WHOISUSER", "NOTICE"}, label \in LabelChoices, tag \in OpenTags :
        /\ StreamIntact
        /\ IsSome(tag) => batches[Unwrap(tag)].events = <<>>
        /\ receive(Msg(cmd, <<"a">>, None, None, None, None, None, label, tag, 0))

InitContext == Constructed(DefaultConfig)

NextContext ==
    \/ CtxACK
    \/ CtxSend
    \/ CtxBatchOpen
    \/ CtxBatchClose
    \/ CtxReply

SpecContext == InitContext /\ [][NextContext]_vars

\* C27: the context of an inbound message is that of its label tag when the
\* label is outstanding (the label is then removed from the table), else that
\* of the open batch its batch tag names, else none; BATCH +ref opens the batch
\* with the context so resolved, so a message tagged with that batch inherits
\* the Context of the label; a Whois context makes the message a WithTarget
\* event for the buffer of the context.
C27_ContextByLabelThenBatch ==
    [][input'.op = "receive" =>
        LET m == input'.message
            byLabel == IsSome(m.label) /\ Unwrap(m.label) \in DOMAIN labels
            byBatch == IsSome(m.batch) /\ Unwrap(m.batch) \in DOMAIN batches
            context == IF byLabel THEN Some(labels[Unwrap(m.label)])
                       ELSE IF byBatch THEN batches[Unwrap(m.batch)].context
                       ELSE None
        IN  /\ labels' = IF byLabel THEN MapRemove(labels, Unwrap(m.label)) ELSE labels
            /\ (m.cmd = "BATCH" /\ m.a = "+") => batches'[m.b].context = context
            /\ m.cmd \in {"RPL_WHOISUSER", "NOTICE"} =>
                hret'.events =
                    IF IsSome(context) /\ Unwrap(context).kind = "Whois"
                      THEN <<WithTarget(m, Unwrap(context).buffer)>>
                    ELSE IF m.cmd = "RPL_WHOISUSER" /\ IsSome(reroute_responses_to)
                      THEN <<WithTarget(m, Unwrap(reroute_responses_to))>>
                    ELSE <<Single(m)>>]_vars

\* a NOTICE without a label, tagged with a batch that the labelled BATCH + of a
\* WHOIS answer opened, went to the buffer of the WHOIS
C27_Witness ==
    /\ input.op = "receive"
    /\ input.message.cmd = "NOTICE"
    /\ ~IsSome(input.message.label)
    /\ IsSome(input.message.batch)
    /\ hret.events = <<WithTarget(input.message, "x")>>
    /\ ret.events = <<>>
    /\ labels = EmptyMap

\* ---------------------------------------------------------------------------
\* the WHO state of a channel
\* ---------------------------------------------------------------------------
MaxTime == 2

WhoChans == {<<"#", "a">>, <<"#", "b">>}

WhoConfig == [DefaultConfig EXCEPT !.who_poll_enabled = TRUE]

\* the server lists WHOX
WhoIsupport ==
    /\ "WHOX" \notin DOMAIN isupport
    /\ receive(Plain("RPL_ISUPPORT", <<[kind |-> "WHOX", op |-> "Add", value |-> None]>>,
                     None, None, None))

\* the server acknowledges away-notify
WhoAwayNotify ==
    /\ ~supports_away_notify
    /\ receive(Plain("CAP ACK", Some(<<"away-notify">>), None, None, None))

\* we join a channel we are not in
WhoSelfJoin ==
    \E chan \in WhoChans \ DOMAIN chanmap :
        receive(Plain("JOIN", chan, None, None, Some(nickname)))

WhoReply ==
    \E chan \in WhoChans :
        receive(Plain("RPL_WHOREPLY", chan, <<"a">>, "H", None))

WhoSpcReply ==
    \E chan \in WhoChans, token \in {WHO_POLL_TOKEN, "9"} :
        receive(Msg("RPL_WHOSPCRPL", token, chan, <<"a">>, "H", None, None, None, None, 0))

WhoEnd == \E chan \in WhoChans : receive(Plain("RPL_ENDOFWHO", chan, None, None, None))

\* the user asks for a WHOIS from buffer x
WhoUserSend ==
    /\ clock < MaxTime
    /\ ~IsSome(reroute_responses_to)
    /\ send("x", "WHOIS", <<"a">>)

WhoTick == \E now \in clock..MaxTime : tick(now)

InitWho == Constructed(WhoConfig)

NextWho ==
    \/ WhoIsupport
    \/ WhoSelfJoin
    \/ WhoReply
    \/ WhoSpcReply
    \/ WhoEnd
    \/ WhoUserSend
    \/ WhoTick

SpecWho == InitWho /\ [][NextWho]_vars

StateOf(last_who) == IF IsSome(last_who) THEN Unwrap(last_who).state ELSE "unset"

\* C28: the last_who of a joined channel moves only along Requested ->
\* Receiving -> Done -> Requested: to Receiving only from Requested (or unset)
\* on a WHO reply for the channel, a WHOX reply echoing the stored token; to
\* Done only from Receiving on RPL_ENDOFWHO; to Requested only by the WHO sent
\* on self-JOIN or by tick; and every WHO the client itself requested whose
\* replies and RPL_ENDOFWHO arrive ends in Done.
C28_WhoStatusCycle ==
    [][\A c \in DOMAIN chanmap' :
        LET m == input'.message
            before == IF c \in DOMAIN chanmap THEN chanmap[c].last_who ELSE None
            after == chanmap'[c].last_who
        IN  /\ (after # before /\ StateOf(after) = "Receiving") =>
                /\ StateOf(before) \in {"Requested", "unset"}
                /\ input'.op = "receive"
                /\ \/ m.cmd = "RPL_WHOREPLY" /\ m.a = c
                   \/ /\ m.cmd = "RPL_WHOSPCRPL" /\ m.b = c
                      /\ StateOf(before) = "Requested"
                      /\ Some(m.a) = Unwrap(before).token
            /\ (after # before /\ StateOf(after) = "Done") =>
                /\ StateOf(before) = "Receiving"
                /\ input'.op = "receive" /\ m.cmd = "RPL_ENDOFWHO" /\ m.a = c
            /\ (after # before /\ StateOf(after) = "Requested") =>
                /\ c \in WhoAsked(sent')
                /\ \/ input'.op = "tick" /\ StateOf(before) \in {"Done", "Requested"}
                   \/ /\ input'.op = "receive" /\ m.cmd = "JOIN" /\ m.a = c
                      /\ c \notin DOMAIN chanmap
            /\ (after # before) => StateOf(after) # "unset"
            /\ (/\ input'.op = "receive" /\ m.cmd = "RPL_ENDOFWHO" /\ m.a = c
                /\ c \in DOMAIN hist.who /\ hist.who[c].replied) =>
                StateOf(after) = "Done"]_vars

\* C29: while a WHO the client itself sent for a joined channel is in flight
\* (last_who is Requested or Receiving), every reply to it and the
\* RPL_ENDOFWHO that closes it produce no event.
C29_OwnWhoRepliesSilent ==
    [][\A c \in DOMAIN hist.who \cap DOMAIN chanmap :
        LET m == input'.message
        IN  (/\ input'.op = "receive"
             /\ StateOf(chanmap[c].last_who) \in {"Requested", "Receiving"}
             /\ \/ AnswersWho(m, c, hist.who[c].token)
                \/ m.cmd = "RPL_ENDOFWHO" /\ m.a = c /\ hist.who[c].replied) =>
            ret'.events = <<>>]_vars

\* ---------------------------------------------------------------------------
\* tick
\* ---------------------------------------------------------------------------
TickConfigs == {[DefaultConfig EXCEPT !.who_poll_enabled = poll] : poll \in BOOLEAN}

InitTick == \E cfg \in TickConfigs : Constructed(cfg)

NextTick ==
    \/ WhoIsupport
    \/ WhoAwayNotify
    \/ WhoSelfJoin
    \/ WhoReply
    \/ WhoSpcReply
    \/ WhoEnd
    \/ WhoTick
    \/ Drain

SpecTick == InitTick /\ [][NextTick]_vars

\* the channels tick(now) has to ask about
DueAt(now) ==
    {c \in DOMAIN chanmap :
        LET last_who == chanmap[c].last_who
        IN  \/ /\ StateOf(last_who) = "Done"
               /\ ~supports_away_notify
               /\ config.who_poll_enabled
               /\ now - Unwrap(last_who).instant >= config.who_poll_interval
            \/ /\ StateOf(last_who) = "Requested"
               /\ now - Unwrap(last_who).instant >= config.who_retry_interval}

\* C30: tick(now) pushes a WHO for channel C exactly when last_who = Done(t),
\* away-notify is not supported, who_poll_enabled holds and now - t >=
\* who_poll_interval, or last_who = Requested(t, _) and now - t >=
\* who_retry_interval (a full sink refuses the push and ends the tick with the
\* error); after the push last_who of C is Requested; the WHOX form with the
\* poll token is used exactly when ISUPPORT lists WHOX; every other channel is
\* left unchanged.
C30_TickAsksDueChannels ==
    [][input'.op = "tick" =>
        LET now == input'.now
            due == DueAt(now)
            asked == WhoAsked(sent')
            whox == "WHOX" \in DOMAIN isupport
        IN  /\ asked \subseteq due
            /\ Len(sent') = Cardinality(asked)
            /\ IF ret'.ok THEN asked = due
                          ELSE asked # due /\ Len(sent') = handle
            /\ \A i \in DOMAIN sent' :
                /\ sent'[i].command = "WHO"
                /\ Len(sent'[i].items) = IF whox THEN 3 ELSE 1
                /\ whox => sent'[i].items[3] = WHO_POLL_TOKEN
            /\ DOMAIN chanmap' = DOMAIN chanmap
            /\ \A c \in DOMAIN chanmap :
                IF c \in asked
                  THEN /\ StateOf(chanmap'[c].last_who) = "Requested"
                       /\ Unwrap(chanmap'[c].last_who).token =
                             IF whox THEN Some(WHO_POLL_TOKEN) ELSE None
                  ELSE chanmap'[c] = chanmap[c]]_vars

\* one tick polled a channel whose WHO was Done and asked again for one whose
\* WHO was unanswered, and left out a channel that was not due
C30_Witness ==
    /\ input.op = "tick"
    /\ ret.ok
    /\ Len(sent) = 1
    /\ "WHOX" \in DOMAIN isupport
    /\ sent[1].items[1] = <<"#", "b">>
    /\ <<"#", "a">> \in DOMAIN chanmap
    /\ StateOf(chanmap[<<"#", "a">>].last_who) = "Done"

\* ---------------------------------------------------------------------------
\* the highlight blackout
\* ---------------------------------------------------------------------------
MaxInstant == 6

\* what the decoders can make of a text
Texts == [dcc : {"None", "Send", "Unsupported"},
          query : {None, Some("Ping"), Some("Unknown")},
          references : BOOLEAN]

\* a PRIVMSG or NOTICE from ourselves or from a, to us or to #a
HlMessage ==
    \E cmd \in {"PRIVMSG", "NOTICE"}, src \in {<<"m">>, <<"a">>},
       target \in {<<"m">>, <<"#", "a">>}, text \in Texts :
        receive(Plain(cmd, target, text, None, Some(src)))

HlTick == \E now \in clock..MaxInstant : tick(now)

InitBlackout == Constructed(DefaultConfig)

NextBlackout ==
    \/ HlMessage
    \/ HlTick
    \/ Drain

SpecBlackout == InitBlackout /\ [][NextBlackout]_vars

\* the Highlight events among the events
Highlights(events) == {events[i] : i \in {j \in DOMAIN events : events[j].kind = "Highlight"}}

\* C31: highlight_blackout is Blackout(creation time) until a tick(now) with
\* now - creation >= 5 s, which alone makes it Receiving, and Receiving it
\* stays; a Highlight notification carries enabled = TRUE exactly when the
\* state is Receiving as the message is processed.
C31_BlackoutEndsOnceInTick ==
    [][/\ highlight_blackout.state = "Receiving" => highlight_blackout' = highlight_blackout
       /\ highlight_blackout.state = "Blackout" =>
            IF /\ input'.op = "tick"
               /\ input'.now - highlight_blackout.instant >= HIGHLIGHT_BLACKOUT_INTERVAL
              THEN highlight_blackout'.state = "Receiving"
              ELSE highlight_blackout' = highlight_blackout
       /\ input'.op = "receive" =>
            \A ev \in Highlights(hret'.events) :
                ev.data = Some(highlight_blackout.state = "Receiving")]_vars

\* a highlight processed after the blackout ended carries enabled = TRUE, and
\* the blackout began at the creation of the client
C31_Witness ==
    /\ input.op = "receive"
    /\ \E ev \in Highlights(hret.events) : ev.data = Some(TRUE)
    /\ highlight_blackout = HighlightReceiving
    /\ clock >= HIGHLIGHT_BLACKOUT_INTERVAL

\* ---------------------------------------------------------------------------
\* the names of a channel
\* ---------------------------------------------------------------------------
NamesSelfJoin == \E chan \in Chans : receive(Plain("JOIN", chan, None, None, Some(<<"m">>)))

NamesPart == \E chan \in Chans : receive(Plain("PART", chan, None, None, Some(<<"a">>)))

NamesReply ==
    \E chan \in Chans, nicks \in {<<<<"a">>>>, <<<<"b">>, <<"a">>>>} :
        receive(Plain("RPL_NAMREPLY", chan, nicks, None, None))

NamesEnd == \E chan \in Chans : receive(Plain("RPL_ENDOFNAMES", chan, None, None, None))

\* the user asks WHOIS a from buffer x; later the server ends the answer
NamesUserSend ==
    /\ clock < MaxSends
    /\ send("x", "WHOIS", <<"a">>)

NamesEndOfWhois == receive(Plain("RPL_ENDOFWHOIS", <<"a">>, None, None, None))

InitNames == Constructed(DefaultConfig)

NextNames ==
    \/ NamesSelfJoin
    \/ NamesPart
    \/ NamesReply
    \/ NamesEnd
    \/ NamesUserSend
    \/ NamesEndOfWhois
    \/ Drain

SpecNames == InitNames /\ [][NextNames]_vars

\* C32: for a joined channel every RPL_NAMREPLY adds each listed user to the
\* users of the channel; while names_init is not set (from the self-JOIN to the
\* first RPL_ENDOFNAMES) RPL_NAMREPLY and that RPL_ENDOFNAMES produce no event
\* and the RPL_ENDOFNAMES sets names_init; after that every RPL_NAMREPLY and
\* RPL_ENDOFNAMES of the channel produces a Single event.
C32_NamesSilentUntilFirstEnd ==
    [][(/\ input'.op = "receive"
        /\ input'.message.cmd \in {"RPL_NAMREPLY", "RPL_ENDOFNAMES"}
        /\ input'.message.a \in DOMAIN chanmap) =>
        LET m == input'.message
            before == chanmap[m.a]
            after == chanmap'[m.a]
        IN  /\ m.cmd = "RPL_NAMREPLY" =>
                \A i \in DOMAIN m.b : UsersContains(after.users, UserFromPrefix(m.b[i]))
            /\ ret'.events = IF before.names_init THEN <<Single(m)>> ELSE <<>>
            /\ after.names_init = (before.names_init \/ m.cmd = "RPL_ENDOFNAMES")]_vars

\* ---------------------------------------------------------------------------
\* QUIT
\* ---------------------------------------------------------------------------
QuitJoin ==
    \E src \in Nicks, chan \in Chans : receive(Plain("JOIN", chan, None, None, Some(src)))

QuitPart ==
    \E src \in Nicks \ {<<"m">>}, chan \in Chans :
        receive(Plain("PART", chan, None, None, Some(src)))

QuitQuit == \E src \in Nicks : receive(Plain("QUIT", None, None, None, Some(src)))

InitQuit == Constructed(DefaultConfig)

NextQuit ==
    \/ QuitJoin
    \/ QuitPart
    \/ QuitQuit
    \/ sync

SpecQuit == InitQuit /\ [][NextQuit]_vars

\* the channels of the map whose users hold a user of this nickname
ChannelsOf(map, nick) ==
    {c \in DOMAIN map : UsersContains(map[c].users, UserFromPrefix(nick))}

\* C33: after a QUIT from user U no channel of chanmap holds U, the keys of
\* chanmap are the ones before, and the Broadcast::Quit returned lists exactly
\* the channels whose users held U just before the QUIT.
C33_QuitListsChannelsOfUser ==
    [][(input'.op = "receive" /\ input'.message.cmd = "QUIT") =>
        LET nick == Unwrap(input'.message.src)
        IN  /\ ChannelsOf(chanmap', nick) = {}
            /\ DOMAIN chanmap' = DOMAIN chanmap
            /\ Len(ret'.events) = 1
            /\ ret'.events[1].kind = "Quit"
            /\ Range(Unwrap(ret'.events[1].data)) = ChannelsOf(chanmap, nick)]_vars

\* ---------------------------------------------------------------------------
\* channels that wait for the login
\* ---------------------------------------------------------------------------
PendChans == {<<"#", "a">>, <<"#", "b">>, <<"#", "c">>}

\* #a and #b are configured, #b with a key
PendConfig ==
    [DefaultConfig EXCEPT !.channels = <<<<"#", "a">>, <<"#", "b">>>>,
                          !.channel_keys = (<<"#", "b">> :> <<"k">>)]

PendSelfJoin ==
    \E chan \in PendChans : receive(Plain("JOIN", chan, None, None, Some(<<"m">>)))

PendNeedReg ==
    \E chan \in PendChans :
        /\ Len(registration_required_channels) < MaxPending
        /\ receive(Plain("ERR_NOCHANMODES", Some(chan), None, None, None))

PendLoggedIn ==
    \E account \in {None, Some("acc")} :
        receive(Plain("RPL_LOGGEDIN", account, None, None, None))

PendLoggedOut == receive(Plain("RPL_LOGGEDOUT", None, None, None, None))

\* the user joins #c: a write that fills the sink
PendUserJoin == join(<<<<"#", "c">>>>)

InitPending == Constructed(PendConfig)

NextPending ==
    \/ PendSelfJoin
    \/ PendNeedReg
    \/ PendLoggedIn
    \/ PendLoggedOut
    \/ PendUserJoin
    \/ TakeOne

SpecPending == InitPending /\ [][NextPending]_vars

\* the channels the JOIN messages among msgs name
JoinNames(msgs) ==
    UNION {Range(msgs[i].items) : i \in {j \in DOMAIN msgs : msgs[j].command = "JOIN"}}

\* a channel enters the pending list only through an ERR_NOCHANMODES naming a
\* configured channel that is not a key of chanmap
EntersOnlyByNoChanModes ==
    registration_required_channels' # registration_required_channels =>
        \/ registration_required_channels' = <<>>
        \/ /\ input'.op = "receive"
           /\ input'.message.cmd = "ERR_NOCHANMODES"
           /\ LET channel == Unwrap(input'.message.a)
              IN  /\ Contains(config.channels, channel)
                  /\ channel \notin DOMAIN chanmap
                  /\ registration_required_channels' =
                        Append(registration_required_channels, channel)

WelcomeConfigs ==
    {[DefaultConfig EXCEPT !.nick_password = pass, !.should_ghost = ghost,
                           !.nick_identify_syntax = syntax, !.umodes = umodes,
                           !.on_connect = on_connect, !.channels = chans]
       : pass \in {None, Some("p")}, ghost \in BOOLEAN,
         syntax \in {None, Some("PasswordNick"), Some("NickPassword")},
         umodes \in {None, Some("+i")},
         on_connect \in {<<>>, <<"AWAY", "OPER">>},
         chans \in {<<>>, <<<<"#", "a">>>>}}

\* the server assigns the configured nickname or another one
WelcomeArrives ==
    \E nick \in {<<"m">>, <<"n">>} :
        receive(Plain("RPL_WELCOME", Some(nick), None, None, None))

InitWelcome == \E cfg \in WelcomeConfigs : Constructed(cfg)

NextWelcome ==
    \/ WelcomeArrives
    \/ TakeOne

SpecWelcome == InitWelcome /\ [][NextWelcome]_vars

\* what C35 lets RPL_WELCOME with the assigned nick send, in order
WelcomeOrder(nick) ==
    LET pass == Unwrap(config.nick_password)
        ghost == IF /\ IsSome(config.nick_password)
                    /\ config.should_ghost
                    /\ nick # config.nickname
                   THEN [i \in DOMAIN config.ghost_sequence |->
                           Out("PRIVMSG", <<"NickServ", <<config.ghost_sequence[i],
                                                          config.nickname, pass>>>>, <<>>)]
                   ELSE <<>>
        text == IF ~IsSome(config.nick_identify_syntax) /\ nick = config.nickname
                  THEN <<"IDENTIFY", pass>>
                ELSE IF config.nick_identify_syntax = Some("PasswordNick")
                  THEN <<"IDENTIFY", pass, config.nickname>>
                ELSE <<"IDENTIFY", config.nickname, pass>>
        identify == IF IsSome(config.nick_password)
                      THEN <<Out("PRIVMSG", <<"NickServ", text>>, <<>>)>> ELSE <<>>
        mode == IF IsSome(config.umodes)
                  THEN <<Out("MODE", <<nick, Unwrap(config.umodes)>>, <<>>)>> ELSE <<>>
        commands == [i \in DOMAIN config.on_connect |->
                        Out(config.on_connect[i], <<>>, <<>>)]
        joins == [i \in DOMAIN config.channels |->
                     Out("JOIN", <<config.channels[i]>>, <<>>)]
    IN  ghost \o identify \o mode \o commands \o joins

\* C35: RPL_WELCOME sends, in this order, the NickServ ghost sequence (only
\* with a nick password, should_ghost and an assigned nick that differs from
\* the configured one), one NickServ IDENTIFY (only with a nick password; without
\* the nickname exactly when no syntax is configured and the assigned nick is
\* the configured one), MODE with the configured umodes, the on_connect
\* commands in configured order, and the JOINs of the configured channels; a
\* sink that refuses a message ends the sequence there with an error.
C35_WelcomeSendsInOrder ==
    [][(/\ input'.op = "receive"
        /\ input'.message.cmd = "RPL_WELCOME"
        /\ IsSome(input'.message.a)) =>
        LET all == WelcomeOrder(Unwrap(input'.message.a))
        IN  \/ ret'.ok /\ sent' = all
            \/ /\ ~ret'.ok
               /\ handle' = 0
               /\ Len(sent') < Len(all)
               /\ sent' = Take(all, Len(sent'))]_vars

\* with another nick assigned: the ghost message, IDENTIFY with the nickname,
\* MODE and JOIN, in this order
C35_Witness ==
    /\ input.op = "receive"
    /\ input.message.cmd = "RPL_WELCOME"
    /\ ret.ok
    /\ [i \in DOMAIN sent |-> sent[i].command] = <<"PRIVMSG", "PRIVMSG", "MODE", "JOIN">>
    /\ sent[1].items[2][1] = "REGAIN"
    /\ sent[2].items[2] = <<"IDENTIFY", <<"m">>, "p">>

\* ---------------------------------------------------------------------------
\* the end of the capability negotiation
\* ---------------------------------------------------------------------------
\* C36: once CAP END has been sent (registration_step = End), no later CAP ACK,
\* CAP NAK, CAP LS or AUTHENTICATE message makes the client send CAP END or
\* AUTHENTICATE again; stated for the message that follows the one that sent
\* CAP END.
C36_CapEndSentOnce ==
    [][(/\ CapEnd \in Range(sent)
        /\ registration_step = End
        /\ input'.op = "receive"
        /\ input'.message.cmd \in {"CAP ACK", "CAP NAK", "CAP LS", "AUTHENTICATE"}) =>
        \A i \in DOMAIN sent' : sent'[i].command \notin {"CAP END", "AUTHENTICATE"}]_vars

\* ---------------------------------------------------------------------------
\* numerics that update the client, with and without a reroute target
\* ---------------------------------------------------------------------------
RerouteConfig ==
    [DefaultConfig EXCEPT !.who_poll_enabled = TRUE, !.alt_nicks = <<<<"a">>>>]

RrSelfJoin == receive(Plain("JOIN", Room, None, None, Some(nickname)))

RrNames == receive(Plain("RPL_NAMREPLY", Room, <<<<"b">>>>, None, None))

RrTopic == receive(Plain("RPL_TOPIC", Some(Room), Some("t"), None, None))

RrWhoReply == receive(Plain("RPL_WHOREPLY", Room, <<"b">>, "G", None))

RrEndOfWho == receive(Plain("RPL_ENDOFWHO", Room, None, None, None))

RrIsupport ==
    /\ "CHANTYPES" \notin DOMAIN isupport
    /\ receive(Plain("RPL_ISUPPORT",
                     <<[kind |-> "CHANTYPES", op |-> "Add", value |-> Some({"#", "&"})]>>,
                     None, None, None))

RrWelcome ==
    /\ ~IsSome(resolved_nick)
    /\ receive(Plain("RPL_WELCOME", Some(<<"a">>), None, None, None))

RrNickInUse ==
    /\ hist.inuse < MaxInUse
    /\ ~IsSome(resolved_nick)
    /\ ~IsSome(alt_nick)
    /\ receive(Plain("ERR_NICKNAMEINUSE", None, None, None, None))

\* the user asks WHOIS a from buffer x; later the server ends the answer
RrUserSend ==
    /\ clock < MaxSends
    /\ ~IsSome(reroute_responses_to)
    /\ send("x", "WHOIS", <<"a">>)

RrEndOfWhois == receive(Plain("RPL_ENDOFWHOIS", <<"a">>, None, None, None))

InitReroute == Constructed(RerouteConfig)

NextReroute ==
    \/ RrSelfJoin
    \/ RrNames
    \/ RrTopic
    \/ RrWhoReply
    \/ RrEndOfWho
    \/ RrIsupport
    \/ RrWelcome
    \/ RrNickInUse
    \/ RrUserSend
    \/ RrEndOfWhois

SpecReroute == InitReroute /\ [][NextReroute]_vars

\* C37: a numeric updates the client the same way whether or not a reroute
\* target is set: RPL_NAMREPLY adds the listed users to a joined channel,
\* RPL_WHOREPLY and RPL_ENDOFWHO advance last_who, RPL_ISUPPORT adds the
\* parameter to the table, RPL_TOPIC sets the topic, RPL_WELCOME resolves the
\* nick, ERR_NICKNAMEINUSE before that moves on to the next alt nick.
C37_RerouteKeepsStateUpdates ==
    [][input'.op = "receive" =>
        LET m == input'.message
            joined == m.a \in DOMAIN chanmap
        IN  /\ (m.cmd = "RPL_NAMREPLY" /\ joined) =>
                \A i \in DOMAIN m.b :
                    UsersContains(chanmap'[m.a].users, UserFromPrefix(m.b[i]))
            /\ (m.cmd = "RPL_WHOREPLY" /\ joined /\ IsRequested(chanmap[m.a].last_who, None)) =>
                chanmap'[m.a].last_who = Receiving(None)
            /\ (/\ m.cmd = "RPL_ENDOFWHO" /\ joined
                /\ IsSome(chanmap[m.a].last_who)
                /\ Unwrap(chanmap[m.a].last_who).state = "Receiving") =>
                Unwrap(chanmap'[m.a].last_who).state = "Done"
            /\ m.cmd = "RPL_ISUPPORT" =>
                \A i \in DOMAIN m.a : m.a[i].kind \in DOMAIN isupport'
            /\ (m.cmd = "RPL_TOPIC" /\ Unwrap(m.a) \in DOMAIN chanmap) =>
                chanmap'[Unwrap(m.a)].topic.content = m.b
            /\ m.cmd = "RPL_WELCOME" => resolved_nick' = m.a
            /\ (m.cmd = "ERR_NICKNAMEINUSE" /\ ~IsSome(resolved_nick)) =>
                alt_nick' = NextAltNick]_vars

\* ---------------------------------------------------------------------------
\* the order of channel names
\* ---------------------------------------------------------------------------
\* names with a default prefix, with a repeated prefix, with a character that
\* is a prefix only when CHANTYPES says so, without a prefix, and the empty name
CompareNames == {<<"#", "b">>, <<"&", "a">>, <<"$", "a">>, <<"#", "#", "b">>, <<"c">>, <<>>}

\* compare_channels applied to the pairs of three names, with the CHANTYPES of
\* the moment
CallCompareChannels ==
    \E a \in CompareNames, b \in CompareNames, c \in CompareNames :
        /\ shIn' = Some([a |-> a, b |-> b, c |-> c, fn |-> "compare_channels"])
        /\ shOut' = <<compare_channels(a, b), compare_channels(b, a),
                      compare_channels(b, c), compare_channels(a, c)>>
        /\ input' = [op |-> "compare_channels"]
        /\ UnchangedByShaper

InitCompare == Constructed(DefaultConfig)

NextCompare ==
    \/ SyncChantypes
    \/ CallCompareChannels

SpecCompare == InitCompare /\ [][NextCompare]_vars

\* C38: for any CHANTYPES, compare_channels is a strict total order on channel
\* names: Equal only for equal names, Less one way exactly when Greater the
\* other way, and transitive, also when names with and without a channel
\* prefix are mixed.
C38_CompareChannelsTotalOrder ==
    input.op = "compare_channels" =>
        LET in == Unwrap(shIn)
            ab == shOut[1]
            ba == shOut[2]
            bc == shOut[3]
            ac == shOut[4]
        IN  /\ ab = "Equal" => in.a = in.b
            /\ ab = "Less" <=> ba = "Greater"
            /\ (ab = "Less" /\ bc = "Less") => ac = "Less"

\* ---------------------------------------------------------------------------
\* The state a failed receive leaves behind
\* ---------------------------------------------------------------------------

\* C39: whenever receive returns an error for a message, the client state after
\* the call (chanmap with users and topics, label and batch tables, reroute
\* target, registration step, pending channels, ISUPPORT table) equals the
\* state before the call.
C39_ErrorLeavesStateUnchanged ==
    [][(input'.op = "receive" /\ ~ret'.ok /\ ~ret'.panic) =>
          UNCHANGED <<chanmap, labels, batches, reroute_responses_to,
                      registration_step, registration_required_channels,
                      isupport>>]_vars

\* ---------------------------------------------------------------------------
\* Map::tick
\* ---------------------------------------------------------------------------

ServerOrder == <<"s1", "s2", "s3">>

\* the keys of the BTreeMap in the order values_mut() visits them
ServersInOrder(m) == SelectSeq(ServerOrder, LAMBDA s : s \in DOMAIN m)

\* A client the Map ticks is kept as what Client::tick reads and writes: its
\* sink, its blackout and the WHO state of its channels; the clients share
\* the configuration and the capabilities.
TickClients ==
    {[handle |-> free,
      sent |-> <<>>,
      chanmap |-> (<<"#", "a">> :> [DefaultChannel EXCEPT !.last_who = last_who]),
      highlight_blackout |-> blackout] :
        free \in 0..1,
        blackout \in {HighlightReceiving, Blackout(0)},
        last_who \in {None, Requested(0, None)}}

\* Client::tick on a client of the Map
ClientTick(client, now) ==
    LET run == TickFrom(KeysInOrder(client.chanmap), 1, client.chanmap, client.handle, now)
    IN  [ok |-> run.ok,
         client |->
            [handle |-> client.handle - Len(run.sent),
             sent |-> run.sent,
             chanmap |-> run.chans,
             highlight_blackout |->
                IF /\ client.highlight_blackout.state = "Blackout"
                   /\ DurationSince(now, client.highlight_blackout.instant)
                          >= HIGHLIGHT_BLACKOUT_INTERVAL
                  THEN HighlightReceiving
                  ELSE client.highlight_blackout]]

\* the loop of Map::tick from the i-th server on: the error of a client's tick
\* is returned at once
RECURSIVE MapTickFrom(_, _, _, _)
MapTickFrom(servers, i, m, now) ==
    IF i > Len(servers) THEN [ok |-> TRUE, map |-> m]
    ELSE IF m[servers[i]].kind # "Ready" THEN MapTickFrom(servers, i + 1, m, now)
    ELSE LET run == ClientTick(m[servers[i]].client, now)
             after == [m EXCEPT ![servers[i]] = Ready(run.client)]
         IN  IF run.ok THEN MapTickFrom(servers, i + 1, after, now)
                       ELSE [ok |-> FALSE, map |-> after]

\* Map::tick(now)
MapTick ==
    \E now \in clock..MaxInstant :
        LET run == MapTickFrom(ServersInOrder(Map), 1, Quiet(Map), now)
        IN  /\ Map' = run.map
            /\ ret' = IF run.ok THEN Ok(<<>>) ELSE Err
            /\ clock' = now
            /\ input' = [op |-> "Map::tick", now |-> now]
            /\ UNCHANGED <<config, handle, sent, nickVars, chanmap, viewVars, labels,
                           batches, reroute_responses_to, capVars,
                           registration_required_channels, isupport, hret, hist,
                           shIn, shOut, highlight_blackout, exited>>

\* Map::ready with a client that has channels
MapTickReady ==
    \E server \in Servers, client \in TickClients :
        /\ Map' = (server :> Ready(client)) @@ Quiet(Map)
        /\ input' = [op |-> "ready", server |-> server]
        /\ UNCHANGED exited
        /\ UnchangedByMap

InitMapTick == Constructed(DefaultConfig)

NextMapTick ==
    \/ MapTickReady
    \/ MapDisconnected
    \/ MapTick

SpecMapTick == InitMapTick /\ [][NextMapTick]_vars

\* C40: Map.tick(now) applies Client.tick(now) to every Ready client of the
\* registry and to no Disconnected entry; an error returned by one client's
\* tick does not prevent the remaining Ready clients from being ticked in the
\* same call.
C40_MapTickReachesEveryReady ==
    [][input'.op = "Map::tick" =>
        /\ DOMAIN Map' = DOMAIN Map
        /\ \A s \in DOMAIN Map :
            IF Map[s].kind = "Ready"
              THEN Map'[s] = Ready(ClientTick(Quiet(Map)[s].client, input'.now).client)
              ELSE Map'[s] = Map[s]]_vars

====
